---- MODULE Spec2Model ----
(***************************************************************************)
(* Model of the UK RAG dashboard data fetchers (src/server/*.py).          *)
(*                                                                         *)
(* Numbers: every metric value and threshold is an integer number of       *)
(* hundredths (80.0 is 8000, 7.2 is 720, 6500000 is 650000000).            *)
(* Python None is the record None; a metric record is a TLA+ record with   *)
(* the fields of the emitted dict that the pipelines compute; the value    *)
(* field is <<"num", n>> for a number and <<"str", s>> for a string, as    *)
(* the emitted dict holds either.                                          *)
(***************************************************************************)
EXTENDS Integers, Sequences, FiniteSets, TLC

VARIABLES call, run, batch

vars == <<call, run, batch>>

None == [none |-> TRUE]

\* what a call gives when an exception leaves it instead of a value
Raise == [raise |-> TRUE]

NumV(n) == <<"num", n>>
StrV(s) == <<"str", s>>

(***************************************************************************)
(* Status classifiers                                                      *)
(***************************************************************************)

\* crime_data_fetcher.py RAG_THRESHOLDS
crime_RAG_THRESHOLDS ==
    [recorded_crime_rate  |-> [green |-> 8000,    amber |-> 10000],
     charge_rate          |-> [green |-> 1000,    amber |-> 700],
     perception_of_safety |-> [green |-> 7000,    amber |-> 5500],
     crown_court_backlog  |-> [green |-> 4000000, amber |-> 6000000],
     reoffending_rate     |-> [green |-> 2500,    amber |-> 3000]]

crime_lower_is_better == {"recorded_crime_rate", "crown_court_backlog", "reoffending_rate"}
crime_higher_is_better == {"charge_rate", "perception_of_safety"}

\* the classifier with the comparisons of the higher-is-better branch made strict
crime_calculate_rag_status_strict(metric_key, value) ==
    IF metric_key \notin DOMAIN crime_RAG_THRESHOLDS THEN "amber"
    ELSE LET thresholds == crime_RAG_THRESHOLDS[metric_key] IN
         IF metric_key \in crime_lower_is_better
         THEN IF value <= thresholds.green THEN "green"
              ELSE IF value <= thresholds.amber THEN "amber"
              ELSE "red"
         ELSE IF metric_key \in crime_higher_is_better
         THEN IF value > thresholds.green THEN "green"
              ELSE IF value > thresholds.amber THEN "amber"
              ELSE "red"
         ELSE "amber"

\* the classifier with an unregistered key raising alarm instead of caution
crime_calculate_rag_status_unknown_red(metric_key, value) ==
    IF metric_key \notin DOMAIN crime_RAG_THRESHOLDS THEN "red"
    ELSE LET thresholds == crime_RAG_THRESHOLDS[metric_key] IN
         IF metric_key \in crime_lower_is_better
         THEN IF value <= thresholds.green THEN "green"
              ELSE IF value <= thresholds.amber THEN "amber"
              ELSE "red"
         ELSE IF metric_key \in crime_higher_is_better
         THEN IF value >= thresholds.green THEN "green"
              ELSE IF value >= thresholds.amber THEN "amber"
              ELSE "red"
         ELSE "red"

crime_calculate_rag_status(metric_key, value) ==
    IF metric_key \notin DOMAIN crime_RAG_THRESHOLDS THEN "amber"
    ELSE LET thresholds == crime_RAG_THRESHOLDS[metric_key] IN
         IF metric_key \in crime_lower_is_better
         THEN IF value <= thresholds.green THEN "green"
              ELSE IF value <= thresholds.amber THEN "amber"
              ELSE "red"
         ELSE IF metric_key \in crime_higher_is_better
         THEN IF value >= thresholds.green THEN "green"
              ELSE IF value >= thresholds.amber THEN "amber"
              ELSE "red"
         ELSE "amber"

\* economy_data_fetcher.py calculate_rag_status: the local thresholds dict
economy_thresholds ==
    [real_gdp_growth        |-> [green |-> 200,  amber |-> 100,   lower_is_better |-> FALSE],
     output_per_hour        |-> [green |-> 100,  amber |-> 0,     lower_is_better |-> FALSE],
     public_sector_net_debt |-> [green |-> 9000, amber |-> 10000, lower_is_better |-> TRUE],
     business_investment    |-> [green |-> 200,  amber |-> 0,     lower_is_better |-> FALSE]]

economy_cpi_thresholds ==
    [green_min |-> 150, green_max |-> 250, amber_min |-> 100, amber_max |-> 350]

\* the classifier with the public sector net debt comparisons made strict
economy_calculate_rag_status_strict(metric_key, value) ==
    IF metric_key = "cpi_inflation"
    THEN LET t == economy_cpi_thresholds IN
         IF t.green_min <= value /\ value <= t.green_max THEN "green"
         ELSE IF t.amber_min <= value /\ value <= t.amber_max THEN "amber"
         ELSE "red"
    ELSE IF metric_key \notin DOMAIN economy_thresholds THEN "amber"
    ELSE LET t == economy_thresholds[metric_key] IN
         IF t.lower_is_better
         THEN IF value < t.green THEN "green"
              ELSE IF value < t.amber THEN "amber"
              ELSE "red"
         ELSE IF value >= t.green THEN "green"
         ELSE IF value >= t.amber THEN "amber"
         ELSE "red"

\* the classifier with the upper ends of the cpi_inflation bands excluded
economy_calculate_rag_status_open_band(metric_key, value) ==
    IF metric_key = "cpi_inflation"
    THEN LET t == economy_cpi_thresholds IN
         IF t.green_min <= value /\ value < t.green_max THEN "green"
         ELSE IF t.amber_min <= value /\ value < t.amber_max THEN "amber"
         ELSE "red"
    ELSE IF metric_key \notin DOMAIN economy_thresholds THEN "amber"
    ELSE LET t == economy_thresholds[metric_key] IN
         IF t.lower_is_better
         THEN IF value <= t.green THEN "green"
              ELSE IF value <= t.amber THEN "amber"
              ELSE "red"
         ELSE IF value >= t.green THEN "green"
         ELSE IF value >= t.amber THEN "amber"
         ELSE "red"

economy_calculate_rag_status(metric_key, value) ==
    IF metric_key = "cpi_inflation"
    THEN LET t == economy_cpi_thresholds IN
         IF t.green_min <= value /\ value <= t.green_max THEN "green"
         ELSE IF t.amber_min <= value /\ value <= t.amber_max THEN "amber"
         ELSE "red"
    ELSE IF metric_key \notin DOMAIN economy_thresholds THEN "amber"
    ELSE LET t == economy_thresholds[metric_key] IN
         IF t.lower_is_better
         THEN IF value <= t.green THEN "green"
              ELSE IF value <= t.amber THEN "amber"
              ELSE "red"
         ELSE IF value >= t.green THEN "green"
         ELSE IF value >= t.amber THEN "amber"
         ELSE "red"

\* healthcare_data_fetcher.py RAG_THRESHOLDS
healthcare_RAG_THRESHOLDS ==
    [a_e_wait_time           |-> [green |-> 9500,      amber |-> 9000],
     cancer_wait_time        |-> [green |-> 6200,      amber |-> 7500],
     ambulance_response_time |-> [green |-> 700,       amber |-> 1000],
     elective_backlog        |-> [green |-> 400000000, amber |-> 600000000],
     gp_appt_access          |-> [green |-> 7000,      amber |-> 5500],
     staff_vacancy_rate      |-> [green |-> 500,       amber |-> 800]]

healthcare_higher_is_better == {"a_e_wait_time", "gp_appt_access"}

healthcare_calculate_rag_status(metric_key, value) ==
    IF metric_key \notin DOMAIN healthcare_RAG_THRESHOLDS THEN "amber"
    ELSE LET thresholds == healthcare_RAG_THRESHOLDS[metric_key] IN
         IF metric_key \in healthcare_higher_is_better
         THEN IF value >= thresholds.green THEN "green"
              ELSE IF value >= thresholds.amber THEN "amber"
              ELSE "red"
         ELSE IF value <= thresholds.green THEN "green"
         ELSE IF value <= thresholds.amber THEN "amber"
         ELSE "red"

\* defence_data_fetcher.py RAG_THRESHOLDS
defence_RAG_THRESHOLDS ==
    [defence_spending_gdp |-> [green |-> 200,  amber |-> 180],
     equipment_readiness  |-> [green |-> 8500, amber |-> 7500],
     personnel_strength   |-> [green |-> 9500, amber |-> 9000]]

defence_calculate_rag_status(metric_key, value) ==
    IF metric_key \notin DOMAIN defence_RAG_THRESHOLDS THEN "amber"
    ELSE LET thresholds == defence_RAG_THRESHOLDS[metric_key] IN
         IF value >= thresholds.green THEN "green"
         ELSE IF value >= thresholds.amber THEN "amber"
         ELSE "red"

\* education_data_fetcher.py RAG_THRESHOLDS
education_RAG_THRESHOLDS ==
    [attainment8          |-> [green |-> 4800,     amber |-> 4400],
     teacher_vacancy_rate |-> [green |-> 100,      amber |-> 200],
     neet_rate            |-> [green |-> 300,      amber |-> 500],
     persistent_absence   |-> [green |-> 1000,     amber |-> 1500],
     apprentice_starts    |-> [green |-> 25000000, amber |-> 20000000]]

education_higher_is_better == {"attainment8", "apprentice_starts"}

education_calculate_rag_status(metric_name, value) ==
    IF metric_name \notin DOMAIN education_RAG_THRESHOLDS THEN "amber"
    ELSE LET thresholds == education_RAG_THRESHOLDS[metric_name] IN
         IF metric_name = "attainment8"
         THEN IF value >= thresholds.green THEN "green"
              ELSE IF value >= thresholds.amber THEN "amber"
              ELSE "red"
         ELSE IF metric_name = "apprentice_starts"
         THEN IF value >= thresholds.green THEN "green"
              ELSE IF value >= thresholds.amber THEN "amber"
              ELSE "red"
         ELSE IF value < thresholds.green THEN "green"
         ELSE IF value < thresholds.amber THEN "amber"
         ELSE "red"

\* employment_data_fetcher.py _employment_rag: the literals of its comparisons
employment_thresholds ==
    [inactivity_rate   |-> [green |-> 2000, amber |-> 2200],
     real_wage_growth  |-> [green |-> 100,  amber |-> 0],
     job_vacancy_ratio |-> [green |-> 400,  amber |-> 250],
     underemployment   |-> [green |-> 600,  amber |-> 800],
     sickness_absence  |-> [green |-> 250,  amber |-> 350]]

employment_higher_is_better == {"real_wage_growth", "job_vacancy_ratio"}

employment_rag(metric_key, value) ==
    IF metric_key = "inactivity_rate"
    THEN IF value <= 2000 THEN "green" ELSE IF value <= 2200 THEN "amber" ELSE "red"
    ELSE IF metric_key = "real_wage_growth"
    THEN IF value >= 100 THEN "green" ELSE IF value >= 0 THEN "amber" ELSE "red"
    ELSE IF metric_key = "job_vacancy_ratio"
    THEN IF value >= 400 THEN "green" ELSE IF value >= 250 THEN "amber" ELSE "red"
    ELSE IF metric_key = "underemployment"
    THEN IF value < 600 THEN "green" ELSE IF value <= 800 THEN "amber" ELSE "red"
    ELSE IF metric_key = "sickness_absence"
    THEN IF value < 250 THEN "green" ELSE IF value <= 350 THEN "amber" ELSE "red"
    ELSE "amber"

\* employment_data_fetcher.py ResolutionFoundationFetcher._calculate_rag_status
rf_thresholds ==
    [employment_rate   |-> [green |-> 7500, amber |-> 7200],
     unemployment_rate |-> [green |-> 400,  amber |-> 600]]

rf_calculate_rag_status(metric_key, value) ==
    IF metric_key = "employment_rate"
    THEN IF value >= 7500 THEN "green" ELSE IF value >= 7200 THEN "amber" ELSE "red"
    ELSE IF metric_key = "unemployment_rate"
    THEN IF value <= 400 THEN "green" ELSE IF value <= 600 THEN "amber" ELSE "red"
    ELSE "amber"

\* population_data_fetcher.py: the inline rules of the four fetch functions
population_thresholds ==
    [old_age_dependency_ratio |-> [green |-> 30000, amber |-> 35000],
     healthy_life_expectancy  |-> [green |-> 6300,  amber |-> 6000]]

oadr_rag(oadr_val) ==
    IF oadr_val < 30000 THEN "green" ELSE IF oadr_val < 35000 THEN "amber" ELSE "red"

hle_rag(hle_years) ==
    IF hle_years >= 6300 THEN "green" ELSE IF hle_years >= 6000 THEN "amber" ELSE "red"

net_migration_rag(value_thousands) ==
    IF 0 <= value_thousands /\ value_thousands <= 30000 THEN "green"
    ELSE IF value_thousands <= 50000 THEN "amber" ELSE "red"

natural_change_rag(value_thousands) ==
    IF value_thousands > 0 THEN "green" ELSE IF value_thousands < 0 THEN "red" ELSE "amber"

population_rag(metric_key, value) ==
    CASE metric_key = "old_age_dependency_ratio" -> oadr_rag(value)
      [] metric_key = "healthy_life_expectancy"  -> hle_rag(value)
      [] metric_key = "net_migration"            -> net_migration_rag(value)
      [] metric_key = "natural_change"           -> natural_change_rag(value)

population_rule_keys ==
    {"old_age_dependency_ratio", "healthy_life_expectancy", "net_migration", "natural_change"}

(***************************************************************************)
(* The classifiers as one table: who registers which key, with which       *)
(* thresholds and in which direction.                                      *)
(***************************************************************************)

KeyedFetchers ==
    {"crime", "economy", "healthcare", "defence", "education", "employment",
     "resolution_foundation"}

Thresholds(fetcher) ==
    CASE fetcher = "crime"                 -> crime_RAG_THRESHOLDS
      [] fetcher = "economy"               -> economy_thresholds
      [] fetcher = "healthcare"            -> healthcare_RAG_THRESHOLDS
      [] fetcher = "defence"               -> defence_RAG_THRESHOLDS
      [] fetcher = "education"             -> education_RAG_THRESHOLDS
      [] fetcher = "employment"            -> employment_thresholds
      [] fetcher = "resolution_foundation" -> rf_thresholds
      [] fetcher = "population"            -> population_thresholds

HigherIsBetter(fetcher) ==
    CASE fetcher = "crime"                 -> crime_higher_is_better
      [] fetcher = "economy"               ->
            {k \in DOMAIN economy_thresholds : ~economy_thresholds[k].lower_is_better}
      [] fetcher = "healthcare"            -> healthcare_higher_is_better
      [] fetcher = "defence"               -> DOMAIN defence_RAG_THRESHOLDS
      [] fetcher = "education"             -> education_higher_is_better
      [] fetcher = "employment"            -> employment_higher_is_better
      [] fetcher = "resolution_foundation" -> {"employment_rate"}
      [] fetcher = "population"            -> {"healthy_life_expectancy"}

Classify(fetcher, key, value) ==
    CASE fetcher = "crime"                 -> crime_calculate_rag_status(key, value)
      [] fetcher = "economy"               -> economy_calculate_rag_status(key, value)
      [] fetcher = "healthcare"            -> healthcare_calculate_rag_status(key, value)
      [] fetcher = "defence"               -> defence_calculate_rag_status(key, value)
      [] fetcher = "education"             -> education_calculate_rag_status(key, value)
      [] fetcher = "employment"            -> employment_rag(key, value)
      [] fetcher = "resolution_foundation" -> rf_calculate_rag_status(key, value)
      [] fetcher = "population"            -> population_rag(key, value)

RegisteredKeys(fetcher) ==
    IF fetcher = "economy" THEN DOMAIN economy_thresholds \cup {"cpi_inflation"}
    ELSE IF fetcher = "population" THEN population_rule_keys
    ELSE DOMAIN Thresholds(fetcher)

UnknownKey == "no_such_metric"

MetricKeys ==
    UNION {RegisteredKeys(f) : f \in KeyedFetchers \cup {"population"}} \cup {UnknownKey}

\* Every threshold of every table, the values next to it (one hundredth
\* below and above), and the values the banded examples name.
ThresholdValues ==
    UNION {UNION {{Thresholds(f)[k].green, Thresholds(f)[k].amber} :
                     k \in DOMAIN Thresholds(f)} :
              f \in KeyedFetchers \cup {"population"}} \cup
    {economy_cpi_thresholds.green_min, economy_cpi_thresholds.green_max,
     economy_cpi_thresholds.amber_min, economy_cpi_thresholds.amber_max,
     50000}

TestValues ==
    UNION {{t - 1, t, t + 1} : t \in ThresholdValues} \cup {90, 360, -100}

NoCall == [fetcher |-> "none", key |-> "none", value |-> 0, status |-> "none"]

CallOf(fetcher, key, value) ==
    [fetcher |-> fetcher, key |-> key, value |-> value,
     status |-> Classify(fetcher, key, value)]

\* One call of calculate_rag_status of crime_data_fetcher.py.
Classify_crime ==
    /\ call = NoCall
    /\ \E key \in MetricKeys, value \in TestValues : call' = CallOf("crime", key, value)
    /\ UNCHANGED <<run, batch>>

\* One call of ONSDataFetcher.calculate_rag_status.
Classify_economy ==
    /\ call = NoCall
    /\ \E key \in MetricKeys, value \in TestValues : call' = CallOf("economy", key, value)
    /\ UNCHANGED <<run, batch>>

\* One call of calculate_rag_status of healthcare_data_fetcher.py.
Classify_healthcare ==
    /\ call = NoCall
    /\ \E key \in MetricKeys, value \in TestValues : call' = CallOf("healthcare", key, value)
    /\ UNCHANGED <<run, batch>>

\* One call of calculate_rag_status of defence_data_fetcher.py.
Classify_defence ==
    /\ call = NoCall
    /\ \E key \in MetricKeys, value \in TestValues : call' = CallOf("defence", key, value)
    /\ UNCHANGED <<run, batch>>

\* One call of calculate_rag_status of education_data_fetcher.py.
Classify_education ==
    /\ call = NoCall
    /\ \E key \in MetricKeys, value \in TestValues : call' = CallOf("education", key, value)
    /\ UNCHANGED <<run, batch>>

\* One call of _employment_rag.
Classify_employment ==
    /\ call = NoCall
    /\ \E key \in MetricKeys, value \in TestValues : call' = CallOf("employment", key, value)
    /\ UNCHANGED <<run, batch>>

\* One call of ResolutionFoundationFetcher._calculate_rag_status.
Classify_resolution_foundation ==
    /\ call = NoCall
    /\ \E key \in MetricKeys, value \in TestValues :
          call' = CallOf("resolution_foundation", key, value)
    /\ UNCHANGED <<run, batch>>

\* One evaluation of an inline population rule on an extracted value.
Classify_population ==
    /\ call = NoCall
    /\ \E key \in population_rule_keys, value \in TestValues :
          call' = CallOf("population", key, value)
    /\ UNCHANGED <<run, batch>>

\* The call returns; the next one may start.
Return ==
    /\ call # NoCall
    /\ call' = NoCall
    /\ UNCHANGED <<run, batch>>

(***************************************************************************)
(* Inputs of a metric pipeline: the HTTP response, the downloaded body,    *)
(* and where, if anywhere, an unexpected exception is raised.              *)
(***************************************************************************)

MaxRows == 2

\* len(response.content): below, at and above the 1000 bytes the pipelines test
ContentLengths == {500, 5000}

\* requests.get either raises (timeout, connection error) or returns a
\* response with a status code and a content length.
HttpResponses ==
    {[kind |-> "raise", status |-> 0, len |-> 0]} \cup
    {[kind |-> "resp", status |-> st, len |-> n] : st \in {200, 404}, n \in ContentLengths}

\* response.raise_for_status(): raises for a 4xx/5xx status
RaisesForStatus(resp) == resp.status >= 400

\* An unexpected exception inside the pipeline: none, one while the
\* downloaded data is read and scanned, or one while the record is built.
Faults == {"none", "extract", "build"}

\* What a cell of a loaded grid is, as far as the pipelines look at it:
\* text = str(cell), lower = the keywords found in str(cell).lower(), raw = the case-sensitive
\* period markers found in str(cell), num = the number float() gives once
\* ',' and '%' are removed (no element: float() raises ValueError),
\* comma / pct = the text holds a ',' / a '%', is_str = the cell is a str.
TextCell(lower, raw) ==
    [lower |-> lower, raw |-> raw, num |-> {}, comma |-> FALSE, pct |-> FALSE,
     is_str |-> TRUE]

NumCell(n) ==
    [lower |-> {}, raw |-> {}, num |-> {n}, comma |-> FALSE, pct |-> FALSE,
     is_str |-> FALSE]

NumText(n, comma, pct) ==
    [lower |-> {}, raw |-> {}, num |-> {n}, comma |-> comma, pct |-> pct,
     is_str |-> TRUE]

CellInfo(c) ==
    CASE c = "England"                   -> TextCell({"england"}, {})
      [] c = "Total crime"               -> TextCell({"total", "crime"}, {})
      [] c = "Q4 2023"                   -> TextCell({}, {"Q", "202"})
      [] c = "Charge rate"               -> TextCell({"charge"}, {})
      [] c = "Charged/summonsed"         -> TextCell({"charge", "charged"}, {})
      [] c = "Year ending March 2025"    -> TextCell({"year"}, {"202", "March"})
      [] c = "Year ending March 2025 (provisional)"
                                         -> TextCell({"year"}, {"202", "March"})
      [] c = "Feel safe walking alone"   -> TextCell({"safe", "walking"}, {})
      [] c = "Crown Court open caseload" -> TextCell({"crown", "open", "caseload"}, {})
      [] c = "Total incomplete pathways" -> TextCell({"total", "incomplete"}, {})
      [] c = "Title"                     -> TextCell({}, {})
      [] c = "CDID"                      -> TextCell({}, {})
      [] c = "ABCD"                      -> TextCell({}, {})
      [] c = "LZVD"                      -> TextCell({}, {})
      [] c = "NPEL"                      -> TextCell({}, {})
      [] c = ".."                        -> TextCell({}, {})
      [] c = "2023 Q1"                   -> TextCell({}, {"Q", " Q", "202"})
      [] c = "2024 Q1"                   -> TextCell({}, {"Q", " Q", "202", "2024"})
      [] c = "2024"                      -> NumText(202400, FALSE, FALSE)
      [] c = "0"                         -> NumText(0, FALSE, FALSE)
      [] c = "95"                        -> NumText(9500, FALSE, FALSE)
      [] c = "100"                       -> NumText(10000, FALSE, FALSE)
      [] c = "110"                       -> NumText(11000, FALSE, FALSE)
      [] c = "3"                         -> NumCell(300)
      [] c = "7.2"                       -> NumCell(720)
      [] c = "12.5%"                     -> NumText(1250, FALSE, TRUE)
      [] c = "62.0"                      -> NumCell(6200)
      [] c = "89.5"                      -> NumCell(8950)
      [] c = "120.5"                     -> NumCell(12050)
      [] c = "74,651"                    -> NumText(7465100, TRUE, FALSE)
      [] c = "68000"                     -> NumCell(6800000)
      [] c = "6500000"                   -> NumCell(650000000)
      [] c = "7,400,000"                 -> NumText(740000000, TRUE, FALSE)

\* the cell of a grid that shows this text, and the row that shows these
Cell(text) ==
    [text |-> text, lower |-> CellInfo(text).lower, raw |-> CellInfo(text).raw,
     num |-> CellInfo(text).num, comma |-> CellInfo(text).comma, pct |-> CellInfo(text).pct,
     is_str |-> CellInfo(text).is_str]

Cells(texts) == [i \in 1..Len(texts) |-> Cell(texts[i])]

\* float(str(cell).replace(',', '')): the number, or no element on ValueError
FloatNoComma(c) == IF c.pct THEN {} ELSE c.num

\* float(str(cell).replace('%', '').replace(',', ''))
FloatNoPctComma(c) == c.num

\* float(cell)
FloatPlain(c) == IF c.pct \/ c.comma THEN {} ELSE c.num

ParseFloat(mode, c) ==
    IF mode = "comma" THEN FloatNoComma(c)
    ELSE IF mode = "pct" THEN FloatNoPctComma(c)
    ELSE FloatPlain(c)

Range(seq) == {seq[i] : i \in 1..Len(seq)}

\* row_str: ' '.join(str(cell) for the non-empty cells).lower(), as the set
\* of keywords it contains
RowStr(row) == UNION {c.lower : c \in Range(row)}

\* for cell in row.values: try v = float(...); if lo <= v <= hi: take, break
RECURSIVE FirstCellInRange(_, _, _, _)
FirstCellInRange(row, mode, lo, hi) ==
    IF row = <<>> THEN {}
    ELSE LET v == ParseFloat(mode, Head(row)) IN
         IF v # {} /\ (\A n \in v : lo <= n /\ n <= hi) THEN v
         ELSE FirstCellInRange(Tail(row), mode, lo, hi)

\* The rows a grid is built from, per pipeline, and the grids of at most
\* MaxRows rows.
RECURSIVE SeqsUpTo(_, _)
SeqsUpTo(S, n) ==
    IF n = 0 THEN {<<>>}
    ELSE LET shorter == SeqsUpTo(S, n - 1) IN
         shorter \cup {Append(q, x) : q \in shorter, x \in S}

\* pd.ExcelFile / pd.read_excel / pd.read_csv on the downloaded bytes: a load
\* error, or the grid (rows of cells) of the sheet that is read.
Bodies(rows) ==
    {[ok |-> FALSE, rows |-> <<>>]} \cup
    {[ok |-> TRUE, rows |-> g] : g \in SeqsUpTo(rows, MaxRows)}

\* datetime.now() rendered as f"{today.year} Q{quarter}" and as "%Y"
CurrentQuarter == "<year> Q<quarter>"
CurrentYear == "<year>"

Record(key, value, rag, period, source, url) ==
    [metric_key |-> key, value |-> value, rag_status |-> rag, time_period |-> period,
     data_source |-> source, source_url |-> url]

(***************************************************************************)
(* crime_data_fetcher.py                                                   *)
(***************************************************************************)

crime_SOURCE_URLS ==
    [recorded_crime_rate  |-> "https://www.ons.gov.uk/peoplepopulationandcommunity/crimeandjustice/datasets/crimeinenglandandwalesquarterlydatatables",
     charge_rate          |-> "https://www.gov.uk/government/statistical-data-sets/police-recorded-crime-and-outcomes-open-data-tables",
     perception_of_safety |-> "https://www.ons.gov.uk/peoplepopulationandcommunity/crimeandjustice/datasets/perceptionsothercsewopendatatable",
     crown_court_backlog  |-> "https://www.gov.uk/government/collections/criminal-court-statistics",
     reoffending_rate     |-> "https://www.gov.uk/government/collections/proven-reoffending-statistics"]

\* the first in-range cell of the topmost row that has one, whatever the
\* row's text
RECURSIVE recorded_crime_scan_any_row(_)
recorded_crime_scan_any_row(rows) ==
    IF rows = <<>> THEN {}
    ELSE LET found == FirstCellInRange(Head(rows), "comma", 5000, 15000)
         IN IF found # {} THEN found ELSE recorded_crime_scan_any_row(Tail(rows))

\* fetch_recorded_crime_data, first loop: the first in-range cell of the
\* topmost England / total crime row that has one
RECURSIVE recorded_crime_scan(_)
recorded_crime_scan(rows) ==
    IF rows = <<>> THEN {}
    ELSE LET row_str == RowStr(Head(rows))
             found == IF "england" \in row_str \/ ("total" \in row_str /\ "crime" \in row_str)
                      THEN FirstCellInRange(Head(rows), "comma", 5000, 15000)
                      ELSE {}
         IN IF found # {} THEN found ELSE recorded_crime_scan(Tail(rows))

\* the first cell of a row whose text holds '2024' or 'Q'
RECURSIVE period_cell(_)
period_cell(row) ==
    IF row = <<>> THEN {}
    ELSE IF {"2024", "Q"} \cap Head(row).raw # {} THEN {Head(row).text}
    ELSE period_cell(Tail(row))

\* fetch_recorded_crime_data, second loop: every row is visited, the inner
\* break leaves the row only, so the last row with a period cell wins
RECURSIVE recorded_crime_period(_, _)
recorded_crime_period(rows, time_period) ==
    IF rows = <<>> THEN time_period
    ELSE recorded_crime_period(Tail(rows),
            IF period_cell(Head(rows)) # {} THEN period_cell(Head(rows)) ELSE time_period)

recorded_crime_fallback == 8950

fetch_recorded_crime_data(resp, body, fault) ==
    IF resp.kind = "raise" \/ RaisesForStatus(resp) THEN None
    ELSE IF ~body.ok \/ fault # "none" THEN None
    ELSE LET found == recorded_crime_scan(body.rows)
             period == IF found = {} THEN recorded_crime_period(body.rows, {}) ELSE {}
             crime_rate == IF found = {} THEN recorded_crime_fallback
                           ELSE CHOOSE n \in found : TRUE
             time_period == IF period = {} THEN CurrentQuarter
                            ELSE CHOOSE c \in period : TRUE
         IN Record("recorded_crime_rate", NumV(crime_rate),
                   crime_calculate_rag_status("recorded_crime_rate", crime_rate),
                   time_period, "ONS: Crime in England & Wales",
                   crime_SOURCE_URLS.recorded_crime_rate)

RecordedCrimeRows ==
    {Cells(<<"England", "89.5">>),
     Cells(<<"England", "Total crime", "89.5">>),
     Cells(<<"Total crime", "3", "120.5">>),
     Cells(<<"England", "3">>),
     Cells(<<"120.5">>),
     Cells(<<"Q4 2023">>)}

\* str(cell).strip()[:30]
Strip30(c) ==
    IF c = "Year ending March 2025 (provisional)" THEN "Year ending March 2025 (provis"
    ELSE c

\* the first str cell of a row holding '202', 'March' or (any case) 'year'
RECURSIVE charge_period_cell(_)
charge_period_cell(row) ==
    IF row = <<>> THEN {}
    ELSE LET c == Head(row) IN
         IF c.is_str /\ ({"202", "March"} \cap c.raw # {} \/ "year" \in c.lower)
         THEN {Strip30(Head(row).text)}
         ELSE charge_period_cell(Tail(row))

\* fetch_charge_rate_data, supplementary workbook: rows top to bottom; a
\* keyword row with an in-range cell ends the scan, any other row may set
\* time_period
RECURSIVE charge_scan(_, _)
charge_scan(rows, time_period) ==
    IF rows = <<>> THEN [rate |-> {}, period |-> time_period]
    ELSE LET row_str == RowStr(Head(rows))
             found == IF {"charge", "detection", "outcome"} \cap row_str # {}
                      THEN FirstCellInRange(Head(rows), "pct", 500, 2500)
                      ELSE {}
         IN IF found # {} THEN [rate |-> found, period |-> time_period]
            ELSE charge_scan(Tail(rows),
                    IF charge_period_cell(Head(rows)) # {}
                    THEN charge_period_cell(Head(rows)) ELSE time_period)

\* fetch_charge_rate_data, main workbook: the test "if charge_rate: break"
\* sits in the cell loop and nothing leaves the row loop, so once a rate is
\* held each later keyword row has its first cell tried and may replace it
RECURSIVE charge_scan_main(_, _)
charge_scan_main(rows, charge_rate) ==
    IF rows = <<>> THEN charge_rate
    ELSE LET row == Head(rows)
             row_str == RowStr(row)
             first == IF row = <<>> THEN {}
                      ELSE FirstCellInRange(<<Head(row)>>, "pct", 500, 2500)
             next == IF {"charge", "charged"} \cap row_str = {} THEN charge_rate
                     ELSE IF charge_rate = {} THEN FirstCellInRange(row, "pct", 500, 2500)
                     ELSE IF first # {} THEN first
                     ELSE charge_rate
         IN charge_scan_main(Tail(rows), next)

charge_rate_fallback == 720

fetch_charge_rate_data(resp, body, resp2, body2, fault) ==
    IF resp.kind = "raise" \/ RaisesForStatus(resp) THEN None
    ELSE IF ~body.ok \/ fault = "extract" THEN None
    ELSE LET first == charge_scan(body.rows, {}) IN
         IF first.rate = {} /\ (resp2.kind = "raise" \/ RaisesForStatus(resp2)) THEN None
         ELSE IF first.rate = {} /\ ~body2.ok THEN None
         ELSE IF fault = "build" THEN None
         ELSE LET found == IF first.rate # {} THEN first.rate
                           ELSE charge_scan_main(body2.rows, {})
                  charge_rate == IF found = {} THEN charge_rate_fallback
                                 ELSE CHOOSE n \in found : TRUE
                  time_period == IF first.period # {} THEN CHOOSE c \in first.period : TRUE
                                 ELSE IF first.rate = {} THEN "Year ending March 2025"
                                 ELSE CurrentQuarter
              IN Record("charge_rate", NumV(charge_rate),
                        crime_calculate_rag_status("charge_rate", charge_rate),
                        time_period, "Gov.uk: Crime Outcomes", crime_SOURCE_URLS.charge_rate)

ChargeRows ==
    {Cells(<<"Charge rate", "12.5%">>),
     Cells(<<"Charge rate", "3">>),
     Cells(<<"Year ending March 2025 (provisional)">>)}

ChargeMainRows ==
    {Cells(<<"Charged/summonsed", "3", "7.2">>),
     Cells(<<"12.5%", "Charged/summonsed">>),
     Cells(<<"12.5%">>)}

MaxEntries == 2

\* the standard scan of one grid: the first in-range cell of the topmost
\* safe / perception / walking row that has one
RECURSIVE perception_scan(_)
perception_scan(rows) ==
    IF rows = <<>> THEN {}
    ELSE LET row_str == RowStr(Head(rows))
             found == IF {"safe", "perception", "walking"} \cap row_str # {}
                      THEN FirstCellInRange(Head(rows), "pct", 4000, 9500)
                      ELSE {}
         IN IF found # {} THEN found ELSE perception_scan(Tail(rows))

\* [n for n in names if n.endswith(".csv") or n.endswith(".xlsx")]
RECURSIVE csv_or_xlsx(_)
csv_or_xlsx(names) ==
    IF names = <<>> THEN <<>>
    ELSE IF Head(names).ext \in {".csv", ".xlsx"}
         THEN <<Head(names)>> \o csv_or_xlsx(Tail(names))
         ELSE csv_or_xlsx(Tail(names))

\* the loop over csv_or_xlsx[:3]: "raise" when an entry fails to load,
\* otherwise the value found (no element: none)
RECURSIVE perception_entries(_)
perception_entries(entries) ==
    IF entries = <<>> THEN [raised |-> FALSE, value |-> {}]
    ELSE IF ~Head(entries).body.ok THEN [raised |-> TRUE, value |-> {}]
    ELSE LET found == perception_scan(Head(entries).body.rows) IN
         IF found # {} THEN [raised |-> FALSE, value |-> found]
         ELSE perception_entries(Tail(entries))

fetch_perception_of_safety_data(resp, zip, fault) ==
    IF resp.kind = "raise" \/ RaisesForStatus(resp) THEN None
    ELSE IF ~zip.ok \/ fault = "extract" THEN None
    ELSE LET names == csv_or_xlsx(zip.names)
             first3 == SubSeq(names, 1, IF Len(names) < 3 THEN Len(names) ELSE 3)
             scan == perception_entries(first3)
         IN IF scan.raised THEN None
            ELSE IF scan.value = {} THEN None
            ELSE IF fault = "build" THEN None
            ELSE LET value_pct == CHOOSE n \in scan.value : TRUE IN
                 Record("perception_of_safety", NumV(value_pct),
                        crime_calculate_rag_status("perception_of_safety", value_pct),
                        "2025 Q2", "ONS: Crime Survey (CSEW)",
                        crime_SOURCE_URLS.perception_of_safety)

PerceptionRows ==
    {Cells(<<"Feel safe walking alone", "62.0">>),
     Cells(<<"Feel safe walking alone", "3">>),
     Cells(<<"62.0">>)}

\* the entries of the archive: a name's extension and what loading it gives
PerceptionEntries ==
    {[ext |-> ".txt", body |-> [ok |-> FALSE, rows |-> <<>>]]} \cup
    {[ext |-> e, body |-> b] :
        e \in {".csv", ".xlsx"},
        b \in {[ok |-> FALSE, rows |-> <<>>]} \cup
              {[ok |-> TRUE, rows |-> g] : g \in SeqsUpTo(PerceptionRows, 1)}}

\* zipfile.ZipFile(...) raises on a body that is no archive
PerceptionZips ==
    {[ok |-> FALSE, names |-> <<>>]} \cup
    {[ok |-> TRUE, names |-> n] : n \in SeqsUpTo(PerceptionEntries, MaxEntries)}

\* the standard scan for the Crown Court open caseload
RECURSIVE crown_court_scan(_)
crown_court_scan(rows) ==
    IF rows = <<>> THEN {}
    ELSE LET row_str == RowStr(Head(rows))
             found == IF "crown" \in row_str /\ {"backlog", "caseload", "open"} \cap row_str # {}
                      THEN FirstCellInRange(Head(rows), "comma", 3000000, 10000000)
                      ELSE {}
         IN IF found # {} THEN found ELSE crown_court_scan(Tail(rows))

crown_court_fallback == 7465100

\* the inner try of fetch_crown_court_backlog_data: the download, the two
\* reads (engine="odf", then the default engine) and the scan; whatever is
\* raised inside leaves backlog None
crown_court_inner(resp, odf, body, fault) ==
    IF resp.kind = "raise" THEN {}
    ELSE IF ~(resp.status = 200 /\ resp.len > 1000) THEN {}
    ELSE IF ~odf /\ ~body.ok THEN {}
    ELSE IF fault = "extract" THEN {}
    ELSE crown_court_scan(body.rows)

\* the engines pd.read_excel is called with on the downloaded bytes, in
\* order: engine="odf", and the default engine once that read has raised
crown_court_engines(resp, odf) ==
    IF resp.kind = "raise" \/ ~(resp.status = 200 /\ resp.len > 1000) THEN <<>>
    ELSE IF odf THEN <<"odf">>
    ELSE <<"odf", "default">>

fetch_crown_court_backlog_data(resp, odf, body, fault) ==
    LET found == crown_court_inner(resp, odf, body, fault)
        backlog == IF found = {} THEN crown_court_fallback ELSE CHOOSE n \in found : TRUE
    IN IF fault = "build" THEN None
       ELSE Record("crown_court_backlog", NumV(backlog),
                   crime_calculate_rag_status("crown_court_backlog", backlog),
                   IF found = {} THEN "Dec 2024" ELSE "Oct-Dec 2024",
                   "MoJ: Criminal Court Stats", crime_SOURCE_URLS.crown_court_backlog)

CrownCourtRows ==
    {Cells(<<"Crown Court open caseload", "3", "74,651">>),
     Cells(<<"Crown Court open caseload", "68000">>),
     Cells(<<"Crown Court open caseload", "3">>),
     Cells(<<"68000">>)}

\* what the two reads give: the odf engine reads the grid, or it raises and
\* the default engine reads it or raises too
CrownCourtReads ==
    {[odf |-> TRUE, body |-> b] : b \in {x \in Bodies(CrownCourtRows) : x.ok}} \cup
    {[odf |-> FALSE, body |-> b] : b \in Bodies(CrownCourtRows)}

reoffending_rate_headline == 2830

\* fetch_reoffending_rate_data without its try/except: an exception inside
\* it leaves the call
fetch_reoffending_rate_data_unguarded(resp, fault) ==
    IF fault # "none" THEN Raise
    ELSE Record("reoffending_rate", NumV(reoffending_rate_headline),
                crime_calculate_rag_status("reoffending_rate", reoffending_rate_headline),
                "Oct-Dec 2023", "MoJ: Proven Reoffending", crime_SOURCE_URLS.reoffending_rate)

\* fetch_reoffending_rate_data: the download is attempted and its outcome
\* ignored; the published headline is always used
fetch_reoffending_rate_data(resp, fault) ==
    IF fault = "build" THEN None
    ELSE Record("reoffending_rate", NumV(reoffending_rate_headline),
                crime_calculate_rag_status("reoffending_rate", reoffending_rate_headline),
                "Oct-Dec 2023", "MoJ: Proven Reoffending", crime_SOURCE_URLS.reoffending_rate)

(***************************************************************************)
(* healthcare_data_fetcher.py                                              *)
(***************************************************************************)

\* int(v) of a non-negative float, values being held in hundredths
IntPart(n) == (n \div 100) * 100

\* round(x, 1) of a value held in hundredths; a tie goes to the even tenth
Round1(n) ==
    LET q == n \div 10
        r == n % 10
    IN IF r < 5 THEN q * 10
       ELSE IF r > 5 THEN (q + 1) * 10
       ELSE IF q % 2 = 0 THEN q * 10 ELSE (q + 1) * 10

\* fetch_elective_backlog, first pass: the first in-range cell of the topmost
\* "total ... incomplete" row that has one
RECURSIVE elective_first_pass(_)
elective_first_pass(rows) ==
    IF rows = <<>> THEN {}
    ELSE LET row_str == RowStr(Head(rows))
             found == IF "total" \in row_str /\ "incomplete" \in row_str
                      THEN FirstCellInRange(Head(rows), "comma", 400000000, 1000000000)
                      ELSE {}
         IN IF found # {} THEN {IntPart(n) : n \in found}
            ELSE elective_first_pass(Tail(rows))

\* fetch_elective_backlog, second pass over every row: the test
\* "if backlog is not None: break" sits in the cell loop and nothing leaves
\* the row loop, so once a value is held each later row has its first cell
\* tried and may replace it
RECURSIVE elective_second_pass(_, _)
elective_second_pass(rows, backlog) ==
    IF rows = <<>> THEN backlog
    ELSE LET row == Head(rows)
             first == IF row = <<>> THEN {}
                      ELSE FirstCellInRange(<<Head(row)>>, "comma", 400000000, 1000000000)
             all == FirstCellInRange(row, "comma", 400000000, 1000000000)
             next == IF backlog = {} THEN {IntPart(n) : n \in all}
                     ELSE IF first # {} THEN {IntPart(n) : n \in first}
                     ELSE backlog
         IN elective_second_pass(Tail(rows), next)

elective_backlog_headline == 650000000

elective_record(backlog) ==
    Record("elective_backlog", NumV(backlog),
           healthcare_calculate_rag_status("elective_backlog", backlog),
           "Nov 2025", "NHS England: RTT Waiting Times",
           "https://www.england.nhs.uk/statistics/statistical-work-areas/rtt-waiting-times/")

fetch_elective_backlog(resp, body, fault) ==
    IF resp.kind = "raise" THEN None
    ELSE IF resp.status # 200 \/ resp.len < 1000
         THEN IF fault = "build" THEN None ELSE elective_record(elective_backlog_headline)
    ELSE IF ~body.ok \/ fault # "none" THEN None
    ELSE LET first == elective_first_pass(body.rows)
             found == IF first # {} THEN first ELSE elective_second_pass(body.rows, {})
         IN elective_record(IF found = {} THEN elective_backlog_headline
                            ELSE CHOOSE n \in found : TRUE)

ElectiveRows ==
    {Cells(<<"Total incomplete pathways", "3", "7,400,000">>),
     Cells(<<"Total incomplete pathways", "3">>),
     Cells(<<"3", "6500000">>),
     Cells(<<"7,400,000">>)}

\* fetch_gp_appt_access and fetch_staff_vacancy_rate: no download, the
\* published figure is always used
gp_appt_access_headline == 6500
staff_vacancy_rate_headline == 670

fetch_gp_appt_access(fault) ==
    IF fault = "build" THEN None
    ELSE Record("gp_appt_access", NumV(gp_appt_access_headline),
                healthcare_calculate_rag_status("gp_appt_access", gp_appt_access_headline),
                CurrentQuarter, "NHS Digital: Appointments in GP",
                "https://digital.nhs.uk/data-and-information/publications/statistical/appointments-in-general-practice")

fetch_staff_vacancy_rate(fault) ==
    IF fault = "build" THEN None
    ELSE Record("staff_vacancy_rate", NumV(staff_vacancy_rate_headline),
                healthcare_calculate_rag_status("staff_vacancy_rate", staff_vacancy_rate_headline),
                "Q2 2025/26", "NHS Digital: Vacancies in NHS",
                "https://digital.nhs.uk/data-and-information/publications/statistical/nhs-vacancies-survey")

\* the probes for a monthly file end at the first response with status 200
\* and a long enough body; a probe that raises is skipped
ProbeFinds(probe, min_len) ==
    probe.kind = "resp" /\ probe.status = 200 /\ probe.len > min_len

RECURSIVE SumSeq(_)
SumSeq(seq) == IF seq = <<>> THEN 0 ELSE Head(seq) + SumSeq(Tail(seq))

\* the rows of the A&E table: 'Org name', the three attendance columns
\* added up, the three over-4-hours columns added up
a_e_england_row(rows) ==
    LET hits == {i \in 1..Len(rows) :
                   rows[i].org = "England" \/ (rows[i].org = "" /\ i = 1)}
    IN IF hits = {} THEN {} ELSE {rows[CHOOSE i \in hits : \A j \in hits : i <= j]}

fetch_a_e_wait_time(probe, resp, body, fault) ==
    LET csv_url == IF ProbeFinds(probe, 1000) THEN "<probed Monthly-AE csv>"
                   ELSE "https://www.england.nhs.uk/statistics/wp-content/uploads/sites/2/2025/04/Monthly-AE-March-2025.csv"
    IN
    IF resp.kind = "raise" \/ RaisesForStatus(resp) THEN None
    ELSE IF ~body.ok \/ fault # "none" THEN None
    ELSE LET england == a_e_england_row(body.rows)
             used == IF england = {} THEN body.rows ELSE <<CHOOSE r \in england : TRUE>>
             total_attendances == SumSeq([i \in 1..Len(used) |-> used[i].att])
             total_over_4hr == SumSeq([i \in 1..Len(used) |-> used[i].over])
         IN IF total_attendances = 0 THEN None
            ELSE LET pct_within_4hr ==
                         ((total_attendances - total_over_4hr) * 10000) \div total_attendances
                 IN Record("a_e_wait_time", NumV(Round1(pct_within_4hr)),
                           healthcare_calculate_rag_status("a_e_wait_time", pct_within_4hr),
                           CurrentQuarter, "NHS England: A&E Attendances", csv_url)

AERows ==
    {[org |-> "England", att |-> 2500, over |-> 126], [org |-> "Trust", att |-> 1000, over |-> 40],
     [org |-> "", att |-> 0, over |-> 0], [org |-> "Trust", att |-> 2000, over |-> 500]}

\* a provider table read by column: the first column (organisation) and the
\* cell of the chosen column after pd.to_numeric(errors='coerce') (no
\* element: NaN)
england_total_row(rows) ==
    LET hits == {i \in 1..Len(rows) : rows[i].org \in {"England", "Total"}}
    IN IF hits = {} THEN {} ELSE {rows[CHOOSE i \in hits : \A j \in hits : i <= j]}

\* df[col].apply(pd.to_numeric, errors='coerce').mean(): NaN cells are left
\* out, no cell left gives NaN
column_mean(rows) ==
    LET nums == SelectSeq(rows, LAMBDA r : r.cell # {})
    IN IF nums = <<>> THEN {}
       ELSE {SumSeq([i \in 1..Len(nums) |-> CHOOSE n \in nums[i].cell : TRUE]) \div Len(nums)}

england_or_mean(rows) ==
    IF england_total_row(rows) # {}
    THEN (CHOOSE r \in england_total_row(rows) : TRUE).cell
    ELSE column_mean(rows)

cancer_wait_fallback == 6800

fetch_cancer_wait_time(probe, resp, body, col, fault) ==
    LET csv_url == IF ProbeFinds(probe, 100) THEN "<probed 62-Day csv>"
                   ELSE "https://www.england.nhs.uk/statistics/wp-content/uploads/sites/2/2025/05/7.-62-Day-Combined-All-Cancers-Provider-Data.csv"
    IN
    IF resp.kind = "raise" \/ RaisesForStatus(resp) THEN None
    ELSE IF ~body.ok \/ fault # "none" THEN None
    ELSE LET cell == england_or_mean(body.rows)
             parsed == IF col = "wait" THEN cell
                       ELSE IF col = "pct"
                            THEN {6200 - ((62 * n) \div 100) + 1000 : n \in cell}
                       ELSE {}
             avg_wait_time == IF parsed = {} \/ (\E n \in parsed : n <= 0)
                              THEN cancer_wait_fallback
                              ELSE CHOOSE n \in parsed : TRUE
         IN Record("cancer_wait_time", NumV(Round1(avg_wait_time)),
                   healthcare_calculate_rag_status("cancer_wait_time", avg_wait_time),
                   CurrentQuarter, "NHS England Cancer Waiting Times", csv_url)

CancerRows ==
    {[org |-> "England", cell |-> {7250}], [org |-> "Trust", cell |-> {6000}],
     [org |-> "Total", cell |-> {}], [org |-> "Trust", cell |-> {12000}]}

ambulance_response_fallback == 850

fetch_ambulance_response_time(probe, resp, body, col, fault) ==
    LET found == ProbeFinds(probe, 1000)
        excel_url == IF found THEN "<probed AmbSYS xlsx>"
                     ELSE "https://www.england.nhs.uk/statistics/statistical-work-areas/ambulance-quality-indicators/"
    IN
    IF found /\ (resp.kind = "raise" \/ RaisesForStatus(resp)) THEN None
    ELSE IF found /\ ~body.ok THEN None
    ELSE IF fault # "none" THEN None
    ELSE LET parsed == IF found /\ col # "none" THEN england_or_mean(body.rows) ELSE {}
             avg_response_time == IF parsed = {} \/ (\E n \in parsed : n <= 0)
                                  THEN ambulance_response_fallback
                                  ELSE CHOOSE n \in parsed : TRUE
         IN Record("ambulance_response_time", NumV(Round1(avg_response_time)),
                   healthcare_calculate_rag_status("ambulance_response_time", avg_response_time),
                   CurrentQuarter, "NHS England: Ambulance Quality", excel_url)

AmbulanceRows ==
    {[org |-> "England", cell |-> {815}], [org |-> "Trust", cell |-> {1200}],
     [org |-> "Trust", cell |-> {}], [org |-> "Total", cell |-> {0}]}

\* one month of fetch_a_e_wait_time_historical: no file found and no known
\* address skips the month; a failed download or load, or a month without
\* attendances, is caught and skipped; nothing escapes the loop
a_e_historical_month(probe, known, resp, body, fault) ==
    IF ~ProbeFinds(probe, 1000) /\ ~known THEN None
    ELSE IF resp.kind = "raise" \/ RaisesForStatus(resp) THEN None
    ELSE IF ~body.ok \/ fault # "none" THEN None
    ELSE LET total_attendances == SumSeq([i \in 1..Len(body.rows) |-> body.rows[i].att])
             total_over_4hr == SumSeq([i \in 1..Len(body.rows) |-> body.rows[i].over])
         IN IF ~(total_attendances > 0) THEN None
            ELSE LET pct_within_4hr ==
                         ((total_attendances - total_over_4hr) * 10000) \div total_attendances
                 IN Record("a_e_wait_time", NumV(Round1(pct_within_4hr)),
                           healthcare_calculate_rag_status("a_e_wait_time", pct_within_4hr),
                           "<month's year> Q<quarter>", "NHS England: A&E Attendances",
                           "<month's Monthly-AE csv>")

(***************************************************************************)
(* economy_data_fetcher.py                                                 *)
(***************************************************************************)

MaxLines == 3

\* The lines of an ONS generator CSV, as far as the parsers look at them:
\* quoted2 = the line starts with '"' and splits on '","' into two fields,
\* first = the first field without its quotes, value = float() of the second
\* field (no element: ValueError)
LineTitle == "\"Title\",\"Real GDP growth\""
Line2023 == "\"2023\",\"1.5\""
Line2024Q1 == "\"2024 Q1\",\"0.7\""
Line2024JAN == "\"2024 JAN\",\"3.6\""
Line2024Q2 == "\"2024 Q2\",\"\""
Line2024 == "\"2024\",\"89.5\""
Line2025 == "\"2025\",\"91.2\""
LineBlank == ""

NarrowLines == {LineTitle, Line2023, Line2024Q1, Line2024JAN, Line2024Q2}

LineInfo(line) ==
    CASE line = LineTitle   -> [quoted2 |-> TRUE, first |-> "Title",    value |-> {}]
      [] line = Line2023    -> [quoted2 |-> TRUE, first |-> "2023",     value |-> {150}]
      [] line = Line2024Q1  -> [quoted2 |-> TRUE, first |-> "2024 Q1",  value |-> {70}]
      [] line = Line2024JAN -> [quoted2 |-> TRUE, first |-> "2024 JAN", value |-> {360}]
      [] line = Line2024Q2  -> [quoted2 |-> TRUE, first |-> "2024 Q2",  value |-> {}]
      [] line = Line2024    -> [quoted2 |-> TRUE, first |-> "2024",     value |-> {8950}]
      [] line = Line2025    -> [quoted2 |-> TRUE, first |-> "2025",     value |-> {9120}]
      [] line = LineBlank   -> [quoted2 |-> FALSE, first |-> "",        value |-> {}]

\* what the tests on a first field find: isdigit(), 'Q' in it, ' Q' in it,
\* '-' in it, and "two words or more, the first four digits"
FieldInfo(first) ==
    CASE first = "Title"    -> [digit |-> FALSE, Q |-> FALSE, spaceQ |-> FALSE, dash |-> FALSE, year_word |-> FALSE]
      [] first = "2023"     -> [digit |-> TRUE,  Q |-> FALSE, spaceQ |-> FALSE, dash |-> FALSE, year_word |-> FALSE]
      [] first = "2024 Q1"  -> [digit |-> FALSE, Q |-> TRUE,  spaceQ |-> TRUE,  dash |-> FALSE, year_word |-> TRUE]
      [] first = "2024 Q2"  -> [digit |-> FALSE, Q |-> TRUE,  spaceQ |-> TRUE,  dash |-> FALSE, year_word |-> TRUE]
      [] first = "2024 JAN" -> [digit |-> FALSE, Q |-> FALSE, spaceQ |-> FALSE, dash |-> FALSE, year_word |-> TRUE]
      [] first = "2024"     -> [digit |-> TRUE,  Q |-> FALSE, spaceQ |-> FALSE, dash |-> FALSE, year_word |-> FALSE]
      [] first = "2025"     -> [digit |-> TRUE,  Q |-> FALSE, spaceQ |-> FALSE, dash |-> FALSE, year_word |-> FALSE]

\* the 0-based index of the first line for which looks_like_data holds, 0
\* when there is none: the loop leaves data_start at its initial 0
DataStart(lines, looks_like_data(_)) ==
    LET hits == {i \in 1..Len(lines) :
                   LineInfo(lines[i]).quoted2 /\ looks_like_data(LineInfo(lines[i]).first)}
    IN IF hits = {} THEN 0 ELSE (CHOOSE i \in hits : \A j \in hits : i <= j) - 1

\* the rows up to the first line that is no {date, value} row
RECURSIVE DataRows_aborting(_)
DataRows_aborting(lines) ==
    IF lines = <<>> THEN <<>>
    ELSE LET info == LineInfo(Head(lines)) IN
         IF info.quoted2 /\ info.value # {}
         THEN <<[date |-> info.first, value |-> CHOOSE n \in info.value : TRUE]>>
              \o DataRows_aborting(Tail(lines))
         ELSE <<>>

\* the {date, value} rows of lines[data_start:]: two fields and a second
\* field float() accepts
RECURSIVE DataRows(_)
DataRows(lines) ==
    IF lines = <<>> THEN <<>>
    ELSE LET info == LineInfo(Head(lines)) IN
         IF info.quoted2 /\ info.value # {}
         THEN <<[date |-> info.first, value |-> CHOOSE n \in info.value : TRUE]>>
              \o DataRows(Tail(lines))
         ELSE DataRows(Tail(lines))

economy_looks_like_data(first) ==
    FieldInfo(first).digit \/ FieldInfo(first).Q \/ FieldInfo(first).dash

economy_SERIES_URLS ==
    [real_gdp_growth |-> "https://www.ons.gov.uk/generator?format=csv&uri=/economy/grossdomesticproductgdp/timeseries/ihyp/qna",
     cpi_inflation |-> "https://www.ons.gov.uk/generator?format=csv&uri=/economy/inflationandpriceindices/timeseries/d7g7/mm23",
     output_per_hour |-> "https://www.ons.gov.uk/generator?format=csv&uri=/employmentandlabourmarket/peopleinwork/labourproductivity/timeseries/lzvd/prdy",
     public_sector_net_debt |-> "https://www.ons.gov.uk/generator?format=csv&uri=/economy/governmentpublicsectorandtaxes/publicsectorfinance/timeseries/hf6x/pusf",
     business_investment |-> "https://www.ons.gov.uk/generator?format=csv&uri=/economy/grossdomesticproductgdp/timeseries/npel/cxnv"]

\* the list a historical run returns, wrapped; a latest run returns a record
ListOf(records) == [list |-> records]

\* the records built from the data rows: all of them, or the first one
economy_result_first(metric_key, historical, data_rows) ==
    LET rec(row) == Record(metric_key, NumV(row.value),
                           economy_calculate_rag_status(metric_key, row.value),
                           row.date, "ONS", economy_SERIES_URLS[metric_key])
    IN IF historical THEN ListOf([i \in 1..Len(data_rows) |-> rec(data_rows[i])])
       ELSE rec(data_rows[1])

\* the records built from the data rows: all of them, or the last one
economy_result(metric_key, historical, data_rows) ==
    LET rec(row) == Record(metric_key, NumV(row.value),
                           economy_calculate_rag_status(metric_key, row.value),
                           row.date, "ONS", economy_SERIES_URLS[metric_key])
    IN IF historical THEN ListOf([i \in 1..Len(data_rows) |-> rec(data_rows[i])])
       ELSE rec(data_rows[Len(data_rows)])

\* the fetch that parses every line of the text, whether a data start was
\* found or not
fetch_csv_series_narrow_no_sentinel(metric_key, historical, resp, lines, fault) ==
    IF resp.kind = "raise" \/ RaisesForStatus(resp) THEN None
    ELSE IF fault = "extract" THEN None
    ELSE LET data_rows == DataRows(lines) IN
         IF data_rows = <<>> THEN None
         ELSE IF fault = "build" THEN None
         ELSE economy_result(metric_key, historical, data_rows)

\* fetch_csv_series for the series read from the generator CSV
fetch_csv_series_narrow(metric_key, historical, resp, lines, fault) ==
    IF resp.kind = "raise" \/ RaisesForStatus(resp) THEN None
    ELSE IF fault = "extract" THEN None
    ELSE LET data_start == DataStart(lines, economy_looks_like_data) IN
         IF data_start = 0 THEN None
         ELSE LET data_rows == DataRows(SubSeq(lines, data_start + 1, Len(lines))) IN
              IF data_rows = <<>> THEN None
              ELSE IF fault = "build" THEN None
              ELSE economy_result(metric_key, historical, data_rows)

\* header.index(cdid): the 0-based position of the first cell equal to cdid
\* (no element: ValueError)
HeaderIndex(header, cdid) ==
    LET hits == {i \in 1..Len(header) : header[i].text = cdid}
    IN IF hits = {} THEN {} ELSE {(CHOOSE i \in hits : \A j \in hits : i <= j) - 1}

\* the data rows whatever their first cell holds
RECURSIVE WideDataRows_any_period(_, _)
WideDataRows_any_period(rows, col_idx) ==
    IF rows = <<>> THEN <<>>
    ELSE LET row == Head(rows) IN
         IF row = <<>> \/ Len(row) <= col_idx THEN WideDataRows_any_period(Tail(rows), col_idx)
         ELSE IF FloatPlain(row[col_idx + 1]) = {} THEN WideDataRows_any_period(Tail(rows), col_idx)
         ELSE <<[date |-> row[1].text, value |-> CHOOSE n \in FloatPlain(row[col_idx + 1]) : TRUE]>>
              \o WideDataRows_any_period(Tail(rows), col_idx)

\* the data rows of a dataset CSV below its two header rows: the first cell
\* holds ' Q' and float() accepts the cell of the series' column
RECURSIVE WideDataRows(_, _)
WideDataRows(rows, col_idx) ==
    IF rows = <<>> THEN <<>>
    ELSE LET row == Head(rows) IN
         IF row = <<>> \/ Len(row) <= col_idx THEN WideDataRows(Tail(rows), col_idx)
         ELSE IF " Q" \notin row[1].raw THEN WideDataRows(Tail(rows), col_idx)
         ELSE IF FloatPlain(row[col_idx + 1]) = {} THEN WideDataRows(Tail(rows), col_idx)
         ELSE <<[date |-> row[1].text, value |-> CHOOSE n \in FloatPlain(row[col_idx + 1]) : TRUE]>>
              \o WideDataRows(Tail(rows), col_idx)

\* a transform that knows bare years only
PrevPeriod_years_only(period) ==
    CASE period = "2024" -> {"2023"}
      [] period = "2023" -> {"2022"}
      [] period = "2022" -> {"2021"}
      [] OTHER           -> {}

\* the period one year before, as _compute_yoy_pct_change writes it:
\* f"{y - 1} Q{q}" for "<digits> Q<digits>", str(int(period) - 1) for digits,
\* none for any other label
PrevPeriod(period) ==
    CASE period = "2024 Q1" -> {"2023 Q1"}
      [] period = "2023 Q1" -> {"2022 Q1"}
      [] period = "2024"    -> {"2023"}
      [] period = "2023"    -> {"2022"}
      [] period = "2022"    -> {"2021"}
      [] OTHER              -> {}

\* the place of a period in sorted(by_period.keys()), the order of strings
PeriodRank(period) ==
    CASE period = "2022"    -> 1
      [] period = "2023"    -> 2
      [] period = "2023 Q1" -> 3
      [] period = "2024"    -> 4
      [] period = "2024 Q1" -> 5
      [] period = "2024 Qx" -> 6
      [] period = "abc"     -> 7
      [] OTHER              -> 8

\* round(n / d, 0) for integers n, d # 0; a tie goes to the even integer
RoundDiv(n, d) ==
    LET nn == IF d < 0 THEN -n ELSE n
        dd == IF d < 0 THEN -d ELSE d
        q == nn \div dd
        r == nn % dd
    IN IF 2 * r < dd THEN q
       ELSE IF 2 * r > dd THEN q + 1
       ELSE IF q % 2 = 0 THEN q ELSE q + 1

\* by_period: the value of the last row of each period
by_period(data_rows) ==
    [p \in {data_rows[i].date : i \in 1..Len(data_rows)} |->
        LET last == CHOOSE i \in 1..Len(data_rows) :
                       /\ data_rows[i].date = p
                       /\ \A j \in 1..Len(data_rows) : data_rows[j].date = p => j <= i
        IN data_rows[last].value]

\* the periods, latest first
RECURSIVE SortedPeriods_descending(_)
SortedPeriods_descending(S) ==
    IF S = {} THEN <<>>
    ELSE LET most == CHOOSE p \in S : \A o \in S : PeriodRank(o) <= PeriodRank(p)
         IN <<most>> \o SortedPeriods_descending(S \ {most})

RECURSIVE SortedPeriods(_)
SortedPeriods(S) ==
    IF S = {} THEN <<>>
    ELSE LET least == CHOOSE p \in S : \A o \in S : PeriodRank(p) <= PeriodRank(o)
         IN <<least>> \o SortedPeriods(S \ {least})

\* "if prev is not None": the test without "prev != 0"
yoy_emits_any_prior(levels, period) ==
    PrevPeriod(period) \cap DOMAIN levels # {}

\* "if prev is not None and prev != 0": the period has a value one year
\* before and that value is not zero
yoy_emits(levels, period) ==
    /\ PrevPeriod(period) \cap DOMAIN levels # {}
    /\ \A o \in PrevPeriod(period) \cap DOMAIN levels : levels[o] # 0

\* the division (by_period[period] - prev) / prev is reached with prev = 0:
\* ZeroDivisionError leaves _compute_yoy_pct_change
yoy_divides_by_zero(data_rows) ==
    LET levels == by_period(data_rows)
    IN \E p \in DOMAIN levels :
          /\ yoy_emits(levels, p)
          /\ levels[CHOOSE o \in PrevPeriod(p) : TRUE] = 0

compute_yoy_pct_change(data_rows) ==
    LET levels == by_period(data_rows)
        periods == SortedPeriods(DOMAIN levels)
        kept == SelectSeq(periods, LAMBDA p : yoy_emits(levels, p))
        pct(p) == LET prev == levels[CHOOSE o \in PrevPeriod(p) : TRUE]
                  IN IF prev = 0 THEN 0 ELSE RoundDiv((levels[p] - prev) * 10000, prev)
    IN [i \in 1..Len(kept) |-> [date |-> kept[i], value |-> pct(kept[i])]]

\* fetch_output_per_hour_quarterly / fetch_business_investment_quarterly: the
\* series' column of the dataset CSV, turned into year-on-year change first
\* when is_level
fetch_quarterly(metric_key, cdid, is_level, historical, resp, rows, fault) ==
    IF resp.kind = "raise" \/ RaisesForStatus(resp) THEN None
    ELSE IF fault = "extract" THEN None
    ELSE IF Len(rows) < 2 THEN None
    ELSE IF HeaderIndex(rows[2], cdid) = {} THEN None
    ELSE LET col_idx == CHOOSE i \in HeaderIndex(rows[2], cdid) : TRUE
             levels == WideDataRows(SubSeq(rows, 3, Len(rows)), col_idx)
             data_rows == IF is_level /\ levels # <<>> THEN compute_yoy_pct_change(levels)
                          ELSE levels
         IN IF is_level /\ yoy_divides_by_zero(levels) THEN None
            ELSE IF data_rows = <<>> THEN None
            ELSE IF fault = "build" THEN None
            ELSE economy_result(metric_key, historical, data_rows)

fetch_output_per_hour_quarterly(historical, resp, rows, fault) ==
    fetch_quarterly("output_per_hour", "LZVD", FALSE, historical, resp, rows, fault)

fetch_business_investment_quarterly(historical, resp, rows, fault) ==
    fetch_quarterly("business_investment", "NPEL", TRUE, historical, resp, rows, fault)

\* fetch_csv_series: the two quarterly series are handed on before anything
\* else; body holds the lines of a generator CSV or the rows of a dataset CSV
fetch_csv_series(metric_key, historical, resp, body, fault) ==
    IF metric_key = "output_per_hour"
    THEN fetch_output_per_hour_quarterly(historical, resp, body, fault)
    ELSE IF metric_key = "business_investment"
    THEN fetch_business_investment_quarterly(historical, resp, body, fault)
    ELSE fetch_csv_series_narrow(metric_key, historical, resp, body, fault)

WideRows ==
    {Cells(<<"2023 Q1", "100">>),
     Cells(<<"2023 Q1", "0", "100">>),
     Cells(<<"2024 Q1", "110", "95">>),
     Cells(<<"2024", "110", "110">>),
     Cells(<<"2024 Q1", "..", "0">>),
     Cells(<<>>)}

\* the dataset CSVs: nothing, a title row only, or a title row, a row of
\* series codes and data rows
WideCsvs(cdid) ==
    {<<>>, <<Cells(<<"Title">>)>>} \cup
    {<<Cells(<<"Title">>), header>> \o data :
        header \in {Cells(<<"CDID", cdid>>), Cells(<<"CDID", "ABCD", cdid>>),
                    Cells(<<"CDID", "ABCD">>)},
        data \in SeqsUpTo(WideRows, MaxRows)}

economy_keys ==
    <<"real_gdp_growth", "cpi_inflation", "output_per_hour", "public_sector_net_debt",
      "business_investment">>

EconomyBodies(metric_key) ==
    IF metric_key = "output_per_hour" THEN WideCsvs("LZVD")
    ELSE IF metric_key = "business_investment" THEN WideCsvs("NPEL")
    ELSE SeqsUpTo(NarrowLines, MaxLines)

(***************************************************************************)
(* population_data_fetcher.py                                              *)
(***************************************************************************)

population_looks_like_data(first) ==
    FieldInfo(first).digit \/ FieldInfo(first).spaceQ \/ FieldInfo(first).dash

\* _parse_ons_csv: [] when data_start stays 0
population_parse_ons_csv(lines) ==
    LET data_start == DataStart(lines, population_looks_like_data) IN
    IF data_start = 0 THEN <<>>
    ELSE DataRows(SubSeq(lines, data_start + 1, Len(lines)))

population_SOURCE_URLS ==
    [total_population |-> "https://www.ons.gov.uk/peoplepopulationandcommunity/populationandmigration/populationestimates",
     natural_change |-> "https://www.ons.gov.uk/peoplepopulationandcommunity/populationandmigration/populationestimates/datasets/vitalstatisticspopulationandhealthreferencetables",
     old_age_dependency_ratio |-> "https://www.ons.gov.uk/peoplepopulationandcommunity/populationandmigration/populationprojections/datasets/comparisonofoldagedependencyratioestimatesandprojectionsukandconstituentcountries",
     net_migration |-> "https://www.ons.gov.uk/peoplepopulationandcommunity/populationandmigration/internationalmigration/datasets/longterminternationalimmigrationemigrationandnetmigrationflowsprovisional",
     healthy_life_expectancy |-> "https://www.ons.gov.uk/peoplepopulationandcommunity/healthandsocialcare/healthandlifeexpectancies/datasets/healthstatelifeexpectancyallagesuk"]

fetch_total_population(resp, lines, fault) ==
    IF resp.kind = "raise" \/ RaisesForStatus(resp) THEN None
    ELSE IF fault = "extract" THEN None
    ELSE LET rows == population_parse_ons_csv(lines) IN
         IF rows = <<>> THEN None
         ELSE IF fault = "build" THEN None
         ELSE Record("total_population", NumV(IntPart(rows[Len(rows)].value)), "amber",
                     rows[Len(rows)].date, "ONS: Total Population",
                     population_SOURCE_URLS.total_population)

\* The sheets the four workbook pipelines read, below their header rows. A
\* row holds what the code makes of its cells: year = the year read from
\* column 0 (no element: not a year), value = float() of the value cell with
\* ',' removed (no element: it raises, or the cell is empty).

\* str(year_val)
YearStr(y) ==
    CASE y = 2020 -> "2020" [] y = 2021 -> "2021" [] y = 2022 -> "2022"
      [] y = 2023 -> "2023" [] y = 2024 -> "2024" [] y = 2050 -> "2050"

\* the first row with a year in 1990..2030 whose value is in 400000..900000;
\* a row whose value cannot be read is passed over
RECURSIVE vital_first(_)
vital_first(rows) ==
    IF rows = <<>> THEN {}
    ELSE LET r == Head(rows) IN
         IF /\ r.year # {} /\ r.value # {}
            /\ \A y \in r.year : 1990 <= y /\ y <= 2030
            /\ \A v \in r.value : 40000000 <= v /\ v <= 90000000
         THEN {r}
         ELSE vital_first(Tail(rows))

fetch_natural_change(resp, book, fault) ==
    IF resp.kind = "raise" \/ RaisesForStatus(resp) THEN None
    ELSE IF ~book.ok \/ fault # "none" THEN None
    ELSE LET births == IF book.sheets THEN vital_first(book.births) ELSE {}
             deaths == IF book.sheets THEN vital_first(book.deaths) ELSE {}
         IN IF births = {} \/ deaths = {} THEN None
            ELSE LET b == CHOOSE r \in births : TRUE
                     d == CHOOSE r \in deaths : TRUE
                     raw == (CHOOSE v \in b.value : TRUE) - (CHOOSE v \in d.value : TRUE)
                     value_thousands == RoundDiv(raw, 10000) * 10
                 IN Record("natural_change", NumV(value_thousands),
                           natural_change_rag(value_thousands),
                           YearStr(CHOOSE y \in b.year : TRUE), "ONS Vital Statistics (VVHM)",
                           population_SOURCE_URLS.natural_change)

BirthRows ==
    {[year |-> {2021}, value |-> {69468500}], [year |-> {2021}, value |-> {}],
     [year |-> {}, value |-> {}]}

DeathRows ==
    {[year |-> {2021}, value |-> {66747900}], [year |-> {2020}, value |-> {68962900}],
     [year |-> {2021}, value |-> {300}]}

VitalBooks ==
    {[ok |-> FALSE, sheets |-> FALSE, births |-> <<>>, deaths |-> <<>>],
     [ok |-> TRUE, sheets |-> FALSE, births |-> <<>>, deaths |-> <<>>]} \cup
    {[ok |-> TRUE, sheets |-> TRUE, births |-> b, deaths |-> d] :
        b \in SeqsUpTo(BirthRows, MaxRows), d \in SeqsUpTo(DeathRows, MaxRows)}

\* the last row that qualifies wins: nothing leaves the loop early
RECURSIVE last_qualifying(_, _, _)
last_qualifying(rows, qualifies(_), held) ==
    IF rows = <<>> THEN held
    ELSE last_qualifying(Tail(rows), qualifies,
                         IF qualifies(Head(rows)) THEN {Head(rows)} ELSE held)

oadr_qualifies(r) ==
    /\ r.year # {} /\ r.value # {}
    /\ \A y \in r.year : 1970 <= y /\ y <= 2030
    /\ \A v \in r.value : 20000 <= v /\ v <= 50000

fetch_old_age_dependency_ratio(resp, book, fault) ==
    IF resp.kind = "raise" \/ RaisesForStatus(resp) THEN None
    ELSE IF ~book.ok \/ fault # "none" THEN None
    ELSE IF ~book.sheet THEN None
    ELSE LET found == last_qualifying(book.rows, oadr_qualifies, {}) IN
         IF found = {} THEN None
         ELSE LET r == CHOOSE x \in found : TRUE
                  oadr_val == CHOOSE v \in r.value : TRUE
              IN Record("old_age_dependency_ratio", NumV(Round1(oadr_val)), oadr_rag(oadr_val),
                        YearStr(CHOOSE y \in r.year : TRUE), "ONS Population Projections",
                        population_SOURCE_URLS.old_age_dependency_ratio)

OadrRows ==
    {[year |-> {2022}, value |-> {29000}], [year |-> {2023}, value |-> {30000}],
     [year |-> {2024}, value |-> {}], [year |-> {2050}, value |-> {35000}]}

\* rows of sheet '1': flow = "net migration" found in column 0, period = the
\* text of column 1, value = float() of column 2
net_migration_qualifies(r) ==
    /\ r.flow /\ r.value # {}
    /\ \A v \in r.value : -50000000 <= v /\ v <= 80000000

fetch_net_migration(resp, book, fault) ==
    IF resp.kind = "raise" \/ RaisesForStatus(resp) THEN None
    ELSE IF ~book.ok \/ fault # "none" THEN None
    ELSE IF ~book.sheet THEN None
    ELSE LET found == last_qualifying(book.rows, net_migration_qualifies, {}) IN
         IF found = {} THEN None
         ELSE LET r == CHOOSE x \in found : TRUE
                  value_thousands == RoundDiv(CHOOSE v \in r.value : TRUE, 10000) * 10
              IN Record("net_migration", NumV(value_thousands),
                        net_migration_rag(value_thousands), r.period, "ONS Series BBGM",
                        population_SOURCE_URLS.net_migration)

NetMigrationRows ==
    {[flow |-> TRUE, period |-> "YE Jun 2025", value |-> {20400000}],
     [flow |-> TRUE, period |-> "YE Dec 2024", value |-> {-5000000}],
     [flow |-> FALSE, period |-> "YE Jun 2025", value |-> {89800000}],
     [flow |-> TRUE, period |-> "YE Jun 2024", value |-> {}]}

\* rows of sheet '3': england = 'England' found in column 0, at_birth = the
\* age group is '<1', value = float() of column 7
RECURSIVE hle_values(_)
hle_values(rows) ==
    IF rows = <<>> THEN <<>>
    ELSE LET r == Head(rows) IN
         IF r.england /\ r.at_birth /\ r.value # {} /\ (\A v \in r.value : 5000 <= v /\ v <= 7000)
         THEN <<CHOOSE v \in r.value : TRUE>> \o hle_values(Tail(rows))
         ELSE hle_values(Tail(rows))

fetch_healthy_life_expectancy(resp, book, fault) ==
    IF resp.kind = "raise" \/ RaisesForStatus(resp) THEN None
    ELSE IF ~book.ok \/ fault # "none" THEN None
    ELSE IF ~book.sheet THEN None
    ELSE LET values == hle_values(book.rows) IN
         IF values = <<>> THEN None
         ELSE LET hle_years == RoundDiv(SumSeq(values), 10 * Len(values)) * 10 IN
              Record("healthy_life_expectancy", NumV(hle_years), hle_rag(hle_years),
                     "2021-2023", "ONS Health State Life Expectancy",
                     population_SOURCE_URLS.healthy_life_expectancy)

HleRows ==
    {[england |-> TRUE, at_birth |-> TRUE, value |-> {6150}],
     [england |-> TRUE, at_birth |-> TRUE, value |-> {6290}],
     [england |-> TRUE, at_birth |-> FALSE, value |-> {6500}],
     [england |-> FALSE, at_birth |-> TRUE, value |-> {6000}]}

\* a workbook with one sheet of interest: it does not load, it lacks the
\* sheet, or the sheet's rows
SheetBooks(rows) ==
    {[ok |-> FALSE, sheet |-> FALSE, rows |-> <<>>],
     [ok |-> TRUE, sheet |-> FALSE, rows |-> <<>>]} \cup
    {[ok |-> TRUE, sheet |-> TRUE, rows |-> g] : g \in SeqsUpTo(rows, MaxRows)}

(***************************************************************************)
(* employment_data_fetcher.py                                              *)
(***************************************************************************)

employment_looks_like_data(first) ==
    \/ FieldInfo(first).digit \/ FieldInfo(first).spaceQ \/ FieldInfo(first).dash
    \/ FieldInfo(first).year_word

employment_parse_ons_csv(lines) ==
    LET data_start == DataStart(lines, employment_looks_like_data) IN
    IF data_start = 0 THEN <<>>
    ELSE DataRows(SubSeq(lines, data_start + 1, Len(lines)))

ONS_EMPLOYMENT_SERIES ==
    [inactivity_rate |-> "https://www.ons.gov.uk/generator?format=csv&uri=/employmentandlabourmarket/peoplenotinwork/economicinactivity/timeseries/lf2s/lms",
     real_wage_growth |-> "https://www.ons.gov.uk/generator?format=csv&uri=/employmentandlabourmarket/peopleinwork/earningsandworkinghours/timeseries/a3ww/lms",
     job_vacancy_ratio |-> "https://www.ons.gov.uk/generator?format=csv&uri=/employmentandlabourmarket/peopleinwork/employmentandemployeetypes/timeseries/ap2z/unem"]

employment_keys == <<"inactivity_rate", "real_wage_growth", "job_vacancy_ratio">>

fetch_ons_series(metric_key, resp, lines, fault) ==
    IF resp.kind = "raise" \/ RaisesForStatus(resp) THEN None
    ELSE IF fault = "extract" THEN None
    ELSE LET rows == employment_parse_ons_csv(lines) IN
         IF rows = <<>> THEN None
         ELSE IF fault = "build" THEN None
         ELSE Record(metric_key, NumV(rows[Len(rows)].value),
                     employment_rag(metric_key, rows[Len(rows)].value),
                     rows[Len(rows)].date, "ONS", ONS_EMPLOYMENT_SERIES[metric_key])

\* the records fetch_employment_ons builds from EMPLOYMENT_PUBLISHED_ESTIMATES
EMPLOYMENT_PUBLISHED_ESTIMATES ==
    <<Record("underemployment", NumV(620), employment_rag("underemployment", 620), "2025 Q3",
             "ONS EMP16",
             "https://www.ons.gov.uk/employmentandlabourmarket/peopleinwork/employmentandemployeetypes/datasets/underemploymentandoveremploymentemp16/current"),
      Record("sickness_absence", NumV(200), employment_rag("sickness_absence", 200), "2024",
             "ONS",
             "https://www.ons.gov.uk/employmentandlabourmarket/peopleinwork/employmentandemployeetypes/datasets/sicknessabsenceinthelabourmarket")>>

\* fetch_employment_ons: the records of the three series that gave one, in
\* the order of ONS_EMPLOYMENT_SERIES, then the published estimates; the
\* historical flag is not read. texts[i] holds the lines of the i-th series.
fetch_employment_ons(historical, texts) ==
    LET fetched == [i \in 1..Len(employment_keys) |->
                       fetch_ons_series(employment_keys[i], [kind |-> "resp", status |-> 200, len |-> 5000],
                                        texts[i], "none")]
    IN [list |-> SelectSeq(fetched, LAMBDA m : m # None) \o EMPLOYMENT_PUBLISHED_ESTIMATES]

\* ResolutionFoundationFetcher: the month a row of the workbook is of
RfPeriod(month) == IF month = 1 THEN "2025 Oct" ELSE "2025 Nov"

\* a rate given as a fraction (0.59) is turned into a percentage
rf_percent(emp_rate) ==
    IF 0 <= emp_rate /\ emp_rate <= 100 THEN emp_rate * 100 ELSE emp_rate

rf_record(metric_key, emp_rate, period) ==
    IF 0 <= emp_rate /\ emp_rate <= 10000
    THEN <<Record(metric_key, NumV(emp_rate), rf_calculate_rag_status("employment_rate", emp_rate),
                  period, "Resolution Foundation",
                  "https://www.resolutionfoundation.org/our-work/estimates-of-uk-employment/")>>
    ELSE <<>>

\* the records of one row: the 16+ rate, then the 16-64 rate; a 16+ rate
\* above 100 skips the rest of the row (emp16 / emp1664: the cell of the
\* column if the column is there and the cell is not NaN)
rf_row_records(row) ==
    LET period == RfPeriod(row.month)
        first == IF row.emp16 = {} THEN <<>>
                 ELSE rf_record("employment_rate", rf_percent(CHOOSE v \in row.emp16 : TRUE), period)
        skipped == row.emp16 # {} /\ (CHOOSE v \in row.emp16 : TRUE) > 10000
        second == IF skipped \/ row.emp1664 = {} THEN <<>>
                  ELSE IF (CHOOSE v \in row.emp1664 : TRUE) > 10000 THEN <<>>
                  ELSE rf_record("employment_rate_16_64",
                                 rf_percent(CHOOSE v \in row.emp1664 : TRUE), period)
    IN first \o second

RECURSIVE rf_results(_)
rf_results(rows) ==
    IF rows = <<>> THEN <<>> ELSE rf_row_records(Head(rows)) \o rf_results(Tail(rows))

\* results.sort(key=sort_key, reverse=True): the newest month first, the
\* records of one month in the order they had
rf_sorted(results) ==
    SelectSeq(results, LAMBDA r : r.time_period = RfPeriod(2)) \o
    SelectSeq(results, LAMBDA r : r.time_period = RfPeriod(1))

\* latest_by_metric: the first record of each metric, in the order the
\* metrics come up
RECURSIVE rf_latest_by_metric(_, _)
rf_latest_by_metric(results, seen) ==
    IF results = <<>> THEN <<>>
    ELSE IF Head(results).metric_key \in seen THEN rf_latest_by_metric(Tail(results), seen)
    ELSE <<Head(results)>> \o
         rf_latest_by_metric(Tail(results), seen \cup {Head(results).metric_key})

\* _parse_data_file: every exception of the download and of the workbook is
\* caught inside and gives None, and so does a workbook without a rate
rf_parse_data_file(resp, book, historical) ==
    IF resp.kind = "raise" \/ RaisesForStatus(resp) THEN None
    ELSE IF ~book.ok THEN None
    ELSE LET results == rf_results(book.rows) IN
         IF results = <<>> THEN None
         ELSE IF historical THEN [list |-> rf_sorted(results)]
         ELSE [list |-> rf_latest_by_metric(rf_sorted(results), {})]

\* _get_published_estimates: the same two records with or without the flag
rf_published_estimates ==
    [list |->
       <<Record("employment_rate", NumV(7550), rf_calculate_rag_status("employment_rate", 7550),
                CurrentQuarter, "Resolution Foundation",
                "https://www.resolutionfoundation.org/our-work/estimates-of-uk-employment/"),
         Record("unemployment_rate", NumV(390), rf_calculate_rag_status("unemployment_rate", 390),
                CurrentQuarter, "Resolution Foundation",
                "https://www.resolutionfoundation.org/our-work/estimates-of-uk-employment/")>>]

\* fetch_employment_data: what _parse_data_file gives for the direct address
\* is returned as it is, None included; the page is only read, and the
\* published estimates only used, after an exception of _parse_data_file.
\* On the page, re.findall with two groups gives tuples, so that a link
\* that is found raises AttributeError at startswith and is not followed.
rf_fetch_employment_data(direct, page, excel_links, historical) ==
    IF direct # Raise THEN direct
    ELSE rf_published_estimates

(***************************************************************************)
(* education_data_fetcher.py                                               *)
(***************************************************************************)

\* A DfE table as the three pipelines read it: geo = the geographic_level
\* column exists (a missing column raises KeyError), col = the value column
\* exists, rows = national = the row is 'National', period = time_period,
\* total = the row is the 'Total' of its breakdown column, value = the value
\* cell as a number (no element: text that float() / the comparison rejects).
latest_rows(rows) ==
    LET national == SelectSeq(rows, LAMBDA r : r.national)
        latest_period == CHOOSE p \in {national[i].period : i \in 1..Len(national)} :
                            \A i \in 1..Len(national) : national[i].period <= p
    IN SelectSeq(national, LAMBDA r : r.period = latest_period)

has_national(rows) == \E i \in 1..Len(rows) : rows[i].national

PeriodStr(p) == CASE p = 202324 -> "202324" [] p = 202425 -> "202425"

fetch_attainment8_data(resp, table, fault) ==
    IF resp.kind = "raise" \/ RaisesForStatus(resp) THEN None
    ELSE IF ~table.ok \/ ~table.geo \/ fault # "none" THEN None
    ELSE IF ~has_national(table.rows) THEN None
    ELSE LET latest_data == latest_rows(table.rows)
             totals == SelectSeq(latest_data, LAMBDA r : r.total)
             all_pupils == IF totals = <<>> THEN SubSeq(latest_data, 1, 1) ELSE totals
         IN IF ~table.col THEN None
            ELSE IF all_pupils[1].value = {} THEN None
            ELSE LET attainment8_value == CHOOSE v \in all_pupils[1].value : TRUE IN
                 Record("attainment8", NumV(attainment8_value),
                        education_calculate_rag_status("attainment8", attainment8_value),
                        PeriodStr(all_pupils[1].period), "DfE Key Stage 4 Performance",
                        "https://explore-education-statistics.service.gov.uk/find-statistics/key-stage-4-performance")

\* fetch_teacher_vacancy_data and fetch_neet_data: a fixed record, no
\* download, no classifier call
fetch_teacher_vacancy_data ==
    Record("teacher_vacancy_rate", NumV(150), "amber", "2024", "DfE School Workforce Census",
           "https://explore-education-statistics.service.gov.uk/find-statistics/school-workforce-in-england")

fetch_neet_data ==
    Record("neet_rate", NumV(420), "amber", "2024", "DfE NEET Statistics",
           "https://explore-education-statistics.service.gov.uk/find-statistics/neet-statistics-annual-brief")

fetch_persistent_absence_data(resp, table, fault) ==
    IF resp.kind = "raise" \/ RaisesForStatus(resp) THEN None
    ELSE IF ~table.ok \/ ~table.geo \/ fault # "none" THEN None
    ELSE IF ~has_national(table.rows) THEN None
    ELSE LET national == SelectSeq(table.rows, LAMBDA r : r.national)
             total_phase == SelectSeq(national, LAMBDA r : r.total)
             subset == IF total_phase = <<>> THEN national ELSE total_phase
             latest == latest_rows(subset)
         IN IF ~table.col THEN None
            ELSE IF latest[1].value = {} THEN None
            ELSE LET value == CHOOSE v \in latest[1].value : TRUE IN
                 Record("persistent_absence", NumV(value),
                        education_calculate_rag_status("persistent_absence", value),
                        PeriodStr(latest[1].period), "DfE: Pupil Absence",
                        "https://explore-education-statistics.service.gov.uk/find-statistics/pupil-absence-in-schools-in-england")

\* int(x) if str(x).isdigit() else 0, summed over the latest national rows;
\* a zero sum is summed again with '.' dropped before isdigit()
fetch_apprentice_starts_data(resp, table, fault) ==
    IF resp.kind = "raise" \/ RaisesForStatus(resp) THEN None
    ELSE IF ~table.ok \/ ~table.geo \/ fault # "none" THEN None
    ELSE IF ~has_national(table.rows) \/ ~table.col THEN None
    ELSE LET latest == latest_rows(table.rows)
             starts(r) == IF r.value = {} THEN 0 ELSE CHOOSE v \in r.value : TRUE
             value == SumSeq([i \in 1..Len(latest) |-> starts(latest[i])])
         IN Record("apprentice_starts", NumV(value),
                   education_calculate_rag_status("apprentice_starts", value),
                   PeriodStr(latest[1].period), "DfE: Apprenticeships & Training",
                   "https://explore-education-statistics.service.gov.uk/find-statistics/apprenticeships")

DfeTables(rows) ==
    {[ok |-> FALSE, geo |-> FALSE, col |-> FALSE, rows |-> <<>>]} \cup
    {[ok |-> TRUE, geo |-> g, col |-> c, rows |-> t] :
        g \in BOOLEAN, c \in BOOLEAN, t \in SeqsUpTo(rows, MaxRows)}

Attainment8Rows ==
    {[national |-> TRUE, period |-> 202425, total |-> TRUE, value |-> {4590}],
     [national |-> TRUE, period |-> 202324, total |-> TRUE, value |-> {4800}],
     [national |-> TRUE, period |-> 202425, total |-> FALSE, value |-> {}],
     [national |-> FALSE, period |-> 202425, total |-> TRUE, value |-> {5000}]}

AbsenceRows ==
    {[national |-> TRUE, period |-> 202425, total |-> TRUE, value |-> {1500}],
     [national |-> TRUE, period |-> 202324, total |-> FALSE, value |-> {2100}],
     [national |-> TRUE, period |-> 202425, total |-> FALSE, value |-> {}],
     [national |-> FALSE, period |-> 202425, total |-> TRUE, value |-> {900}]}

ApprenticeRows ==
    {[national |-> TRUE, period |-> 202425, total |-> TRUE, value |-> {13000000}],
     [national |-> TRUE, period |-> 202425, total |-> FALSE, value |-> {12000000}],
     [national |-> TRUE, period |-> 202324, total |-> FALSE, value |-> {}],
     [national |-> FALSE, period |-> 202425, total |-> TRUE, value |-> {30000000}]}

NoRun == [fn |-> "none"]
NoBatch == [entry |-> "none"]

Init == call = NoCall /\ run = NoRun /\ batch = NoBatch

NextClassify ==
    \/ Classify_crime
    \/ Classify_economy
    \/ Classify_healthcare
    \/ Classify_defence
    \/ Classify_education
    \/ Classify_employment
    \/ Classify_resolution_foundation
    \/ Classify_population
    \/ Return

SpecClassify == Init /\ [][NextClassify]_vars

(***************************************************************************)
(* defence_data_fetcher.py                                                 *)
(***************************************************************************)

\* mod_spending = 53.9 (billion GBP)
mod_spending == 5390

\* the published figure used when no GDP value is at hand
defence_spending_published == 200

\* latest_gdp: the first value above 1000 among the ten lines from
\* data_start of the GDP series (no element: none), here values that divide
\* mod_spending * 100 to whole hundredths: 2695 and 3080
GdpScans == {{}, {269500}, {308000}}

\* (mod_spending / latest_gdp) * 100
defence_spending_of_gdp(latest_gdp) == (mod_spending * 10000) \div latest_gdp

\* the engines pd.read_excel is called with on the downloaded bytes: the
\* except branch does not read them again
defence_spending_engines(resp) ==
    IF resp.kind = "raise" \/ RaisesForStatus(resp) THEN <<>> ELSE <<"odf">>

\* fetch_defence_spending: odf = the read with engine="odf" succeeded; when
\* it raised the GDP series is requested (a request that raises leaves the
\* function through its outer except)
fetch_defence_spending(resp, odf, gdp_resp, latest_gdp, fault) ==
    IF resp.kind = "raise" \/ RaisesForStatus(resp) THEN None
    ELSE IF ~odf /\ gdp_resp.kind = "raise" THEN None
    ELSE IF fault # "none" THEN None
    ELSE LET defence_spending_pct ==
                 IF odf THEN defence_spending_published
                 ELSE IF gdp_resp.status = 200 /\ latest_gdp # {}
                 THEN defence_spending_of_gdp(CHOOSE n \in latest_gdp : TRUE)
                 ELSE defence_spending_published
         IN Record("defence_spending_gdp", NumV(defence_spending_pct),
                   defence_calculate_rag_status("defence_spending_gdp", defence_spending_pct),
                   CurrentYear, "Ministry of Defence / ONS",
                   "https://www.gov.uk/government/statistics/defence-departmental-resources-2024")

(***************************************************************************)
(* One call of a metric pipeline: what the network and the files gave it,  *)
(* and the value it returned.                                              *)
(***************************************************************************)

Call_recorded_crime ==
    /\ run = NoRun
    /\ \E resp \in HttpResponses, body \in Bodies(RecordedCrimeRows), fault \in Faults :
          run' = [fn |-> "fetch_recorded_crime_data", resp |-> resp, body |-> body,
                  fault |-> fault, result |-> fetch_recorded_crime_data(resp, body, fault)]
    /\ UNCHANGED <<call, batch>>

Call_charge_rate ==
    /\ run = NoRun
    /\ \E resp \in HttpResponses, body \in Bodies(ChargeRows),
          resp2 \in HttpResponses, body2 \in Bodies(ChargeMainRows), fault \in Faults :
          run' = [fn |-> "fetch_charge_rate_data", resp |-> resp, body |-> body,
                  resp2 |-> resp2, body2 |-> body2, fault |-> fault,
                  result |-> fetch_charge_rate_data(resp, body, resp2, body2, fault)]
    /\ UNCHANGED <<call, batch>>

Call_perception_of_safety ==
    /\ run = NoRun
    /\ \E resp \in HttpResponses, zip \in PerceptionZips, fault \in Faults :
          run' = [fn |-> "fetch_perception_of_safety_data", resp |-> resp, zip |-> zip,
                  fault |-> fault,
                  result |-> fetch_perception_of_safety_data(resp, zip, fault)]
    /\ UNCHANGED <<call, batch>>

Call_crown_court_backlog ==
    /\ run = NoRun
    /\ \E resp \in HttpResponses, read \in CrownCourtReads, fault \in Faults :
          run' = [fn |-> "fetch_crown_court_backlog_data", resp |-> resp, odf |-> read.odf,
                  body |-> read.body, fault |-> fault,
                  engines |-> crown_court_engines(resp, read.odf),
                  result |-> fetch_crown_court_backlog_data(resp, read.odf, read.body, fault)]
    /\ UNCHANGED <<call, batch>>

\* body.ok: the default engine can read the downloaded bytes
Call_defence_spending ==
    /\ run = NoRun
    /\ \E resp \in HttpResponses, odf \in BOOLEAN, readable \in BOOLEAN,
          gdp_resp \in HttpResponses, latest_gdp \in GdpScans, fault \in Faults :
          run' = [fn |-> "fetch_defence_spending", resp |-> resp, odf |-> odf,
                  body |-> [ok |-> readable, rows |-> <<>>], gdp_resp |-> gdp_resp,
                  latest_gdp |-> latest_gdp, fault |-> fault,
                  engines |-> defence_spending_engines(resp),
                  result |-> fetch_defence_spending(resp, odf, gdp_resp, latest_gdp, fault)]
    /\ UNCHANGED <<call, batch>>

Call_elective_backlog ==
    /\ run = NoRun
    /\ \E resp \in HttpResponses, body \in Bodies(ElectiveRows), fault \in Faults :
          run' = [fn |-> "fetch_elective_backlog", resp |-> resp, body |-> body,
                  fault |-> fault, result |-> fetch_elective_backlog(resp, body, fault)]
    /\ UNCHANGED <<call, batch>>

Call_csv_series ==
    /\ run = NoRun
    /\ \E i \in 1..Len(economy_keys), historical \in BOOLEAN, resp \in HttpResponses,
          fault \in Faults :
          \E body \in EconomyBodies(economy_keys[i]) :
             run' = [fn |-> "fetch_csv_series", metric_key |-> economy_keys[i],
                     historical |-> historical, resp |-> resp, body |-> body, fault |-> fault,
                     result |-> fetch_csv_series(economy_keys[i], historical, resp, body, fault)]
    /\ UNCHANGED <<call, batch>>

Call_total_population ==
    /\ run = NoRun
    /\ \E resp \in HttpResponses, lines \in SeqsUpTo(NarrowLines, MaxLines), fault \in Faults :
          run' = [fn |-> "_fetch_total_population", resp |-> resp, body |-> lines,
                  fault |-> fault, result |-> fetch_total_population(resp, lines, fault)]
    /\ UNCHANGED <<call, batch>>

Call_natural_change ==
    /\ run = NoRun
    /\ \E resp \in HttpResponses, book \in VitalBooks, fault \in Faults :
          run' = [fn |-> "_fetch_natural_change", resp |-> resp, body |-> book,
                  fault |-> fault, result |-> fetch_natural_change(resp, book, fault)]
    /\ UNCHANGED <<call, batch>>

Call_net_migration ==
    /\ run = NoRun
    /\ \E resp \in HttpResponses, book \in SheetBooks(NetMigrationRows), fault \in Faults :
          run' = [fn |-> "_fetch_net_migration", resp |-> resp, body |-> book,
                  fault |-> fault, result |-> fetch_net_migration(resp, book, fault)]
    /\ UNCHANGED <<call, batch>>

\* the caller has the returned value; the next call may start
CallReturned ==
    /\ run # NoRun
    /\ run' = NoRun
    /\ UNCHANGED <<call, batch>>

\* the rows of the Resolution Foundation workbook
RfRows ==
    {[month |-> 1, emp16 |-> {59}, emp1664 |-> {7550}],
     [month |-> 2, emp16 |-> {7150}, emp1664 |-> {}],
     [month |-> 2, emp16 |-> {15000}, emp1664 |-> {75}],
     [month |-> 1, emp16 |-> {}, emp1664 |-> {}]}

\* ResolutionFoundationFetcher.fetch_employment_data: the direct download,
\* the employment page and the links found on it
Call_resolution_foundation ==
    /\ run = NoRun
    /\ \E resp \in HttpResponses, book \in Bodies(RfRows), page \in HttpResponses,
          excel_links \in 0..1, historical \in BOOLEAN :
          run' = [fn |-> "fetch_employment_data", resp |-> resp, body |-> book, page |-> page,
                  excel_links |-> excel_links, historical |-> historical,
                  result |-> rf_fetch_employment_data(rf_parse_data_file(resp, book, historical),
                                                      page, excel_links, historical)]
    /\ UNCHANGED <<call, batch>>

NextFetch ==
    \/ Call_recorded_crime
    \/ Call_resolution_foundation
    \/ Call_charge_rate
    \/ Call_perception_of_safety
    \/ Call_crown_court_backlog
    \/ Call_defence_spending
    \/ Call_elective_backlog
    \/ Call_csv_series
    \/ Call_total_population
    \/ Call_natural_change
    \/ Call_net_migration
    \/ CallReturned

SpecFetch == Init /\ [][NextFetch]_vars

(***************************************************************************)
(* One call of the year-on-year transform on a level series.               *)
(***************************************************************************)

MaxPoints == 3

\* the period labels of the level rows: years, quarters, and labels that
\* are neither
YoyPeriods == {"2022", "2023", "2024", "2023 Q1", "2024 Q1", "abc", "2024 Qx"}

\* the levels, in hundredths: 0, 100 and 110
YoyValues == {0, 10000, 11000}

YoyRows == {[date |-> p, value |-> v] : p \in YoyPeriods, v \in YoyValues}

\* _compute_yoy_pct_change is called on a list of {date, value} rows
Call_compute_yoy_pct_change ==
    /\ run = NoRun
    /\ \E data_rows \in SeqsUpTo(YoyRows, MaxPoints) :
          run' = [fn |-> "_compute_yoy_pct_change", data_rows |-> data_rows,
                  result |-> IF yoy_divides_by_zero(data_rows) THEN Raise
                             ELSE ListOf(compute_yoy_pct_change(data_rows))]
    /\ UNCHANGED <<call, batch>>

NextTransform ==
    \/ Call_compute_yoy_pct_change
    \/ CallReturned

SpecTransform == Init /\ [][NextTransform]_vars

(***************************************************************************)
(* The series extractors on a downloaded CSV: the narrow layout of the ONS *)
(* generator (economy, employment, population) and the wide layout of the  *)
(* ONS dataset CSVs (economy).                                             *)
(***************************************************************************)

MaxCsvLines == 4

\* the lines of a generator CSV: a metadata line, a blank line, rows of two
\* years, of a quarter and of a month, and a row whose value is empty
CsvLines == {LineTitle, LineBlank, Line2024, Line2025, Line2024Q1, Line2024JAN, Line2024Q2}

\* response.text.strip().split('\n'): one empty line for an empty text, else
\* lines of which the first and the last are not blank
CsvTexts ==
    {<<LineBlank>>} \cup
    {lines \in SeqsUpTo(CsvLines, MaxCsvLines) :
        lines # <<>> /\ lines[1] # LineBlank /\ lines[Len(lines)] # LineBlank}

\* the download succeeded: status 200
Downloaded == [kind |-> "resp", status |-> 200, len |-> 5000]

\* employment's and population's _parse_ons_csv on the text of a response
Call_parse_ons_csv ==
    /\ run = NoRun
    /\ \E module \in {"employment", "population"}, lines \in CsvTexts :
          run' = [fn |-> "_parse_ons_csv", module |-> module, body |-> lines,
                  result |-> ListOf(IF module = "employment"
                                    THEN employment_parse_ons_csv(lines)
                                    ELSE population_parse_ons_csv(lines))]
    /\ UNCHANGED <<call, batch>>

\* fetch_csv_series on a downloaded generator CSV
Call_fetch_narrow_series ==
    /\ run = NoRun
    /\ \E metric_key \in {"real_gdp_growth", "cpi_inflation", "public_sector_net_debt"},
          historical \in BOOLEAN, lines \in CsvTexts :
          run' = [fn |-> "fetch_csv_series", metric_key |-> metric_key,
                  historical |-> historical, body |-> lines,
                  result |-> fetch_csv_series(metric_key, historical, Downloaded, lines, "none")]
    /\ UNCHANGED <<call, batch>>

\* fetch_csv_series on a downloaded dataset CSV
Call_fetch_quarterly_series ==
    /\ run = NoRun
    /\ \E metric_key \in {"output_per_hour", "business_investment"}, historical \in BOOLEAN :
          \E rows \in EconomyBodies(metric_key) :
             run' = [fn |-> "fetch_csv_series", metric_key |-> metric_key,
                     historical |-> historical, body |-> rows,
                     result |-> fetch_csv_series(metric_key, historical, Downloaded, rows, "none")]
    /\ UNCHANGED <<call, batch>>

\* the texts of an employment series: no data, one point, two points
EmploymentTexts ==
    {<<LineTitle>>, <<LineTitle, Line2024>>, <<LineTitle, Line2024, Line2025>>}

\* fetch_employment_ons with three downloaded series
Call_fetch_employment_ons ==
    /\ run = NoRun
    /\ \E historical \in BOOLEAN, texts \in [1..3 -> EmploymentTexts] :
          run' = [fn |-> "fetch_employment_ons", historical |-> historical, body |-> texts,
                  result |-> fetch_employment_ons(historical, texts)]
    /\ UNCHANGED <<call, batch>>

\* fetch_csv_series on one downloaded response, without and with the
\* historical flag
Call_fetch_csv_series_both_modes ==
    /\ run = NoRun
    /\ \E metric_key \in Range(economy_keys) :
          \E body \in (IF metric_key \in {"output_per_hour", "business_investment"}
                       THEN EconomyBodies(metric_key) ELSE CsvTexts) :
             run' = [fn |-> "fetch_csv_series (both modes)", metric_key |-> metric_key,
                     body |-> body,
                     latest |-> fetch_csv_series(metric_key, FALSE, Downloaded, body, "none"),
                     all |-> fetch_csv_series(metric_key, TRUE, Downloaded, body, "none")]
    /\ UNCHANGED <<call, batch>>

NextExtract ==
    \/ Call_parse_ons_csv
    \/ Call_fetch_csv_series_both_modes
    \/ Call_fetch_employment_ons
    \/ Call_fetch_narrow_series
    \/ Call_fetch_quarterly_series
    \/ CallReturned

SpecExtract == Init /\ [][NextExtract]_vars

(***************************************************************************)
(* fetch_perception_of_safety_data on a downloaded archive of several      *)
(* entries.                                                                *)
(***************************************************************************)

MaxArchiveEntries == 4

\* the entries of the archive: a text file that holds a value, a CSV
\* without a value, a CSV and a workbook with a value each, and a CSV that
\* pd.read_csv cannot load
ArchiveEntries ==
    {[ext |-> ".txt",  body |-> [ok |-> TRUE, rows |-> <<Cells(<<"Feel safe walking alone", "62.0">>)>>]],
     [ext |-> ".csv",  body |-> [ok |-> TRUE, rows |-> <<Cells(<<"Feel safe walking alone", "3">>)>>]],
     [ext |-> ".csv",  body |-> [ok |-> TRUE, rows |-> <<Cells(<<"Feel safe walking alone", "89.5">>)>>]],
     [ext |-> ".xlsx", body |-> [ok |-> TRUE, rows |-> <<Cells(<<"Feel safe walking alone", "62.0">>)>>]],
     [ext |-> ".csv",  body |-> [ok |-> FALSE, rows |-> <<>>]]}

Call_perception_archive ==
    /\ run = NoRun
    /\ \E names \in SeqsUpTo(ArchiveEntries, MaxArchiveEntries) :
          LET zip == [ok |-> TRUE, names |-> names] IN
          run' = [fn |-> "fetch_perception_of_safety_data", resp |-> Downloaded, body |-> zip,
                  fault |-> "none",
                  result |-> fetch_perception_of_safety_data(Downloaded, zip, "none")]
    /\ UNCHANGED <<call, batch>>

NextArchive ==
    \/ Call_perception_archive
    \/ CallReturned

SpecArchive == Init /\ [][NextArchive]_vars

(***************************************************************************)
(* The choice of the sheet of a downloaded workbook: the recorded crime    *)
(* tables (crime_data_fetcher.py) and the ambulance indicators             *)
(* (healthcare_data_fetcher.py).                                           *)
(***************************************************************************)

MaxSheets == 3

\* what the tests on a sheet name find: upper = the hints found in
\* sheet.upper(), lower = the hints found in sheet.lower()
SheetInfo(sheet) ==
    CASE sheet = "Contents"       -> [upper |-> {}, lower |-> {}]
      [] sheet = "Table P1"       -> [upper |-> {"P1"}, lower |-> {"1"}]
      [] sheet = "Table p1a"      -> [upper |-> {"P1"}, lower |-> {"1"}]
      [] sheet = "Recorded crime" -> [upper |-> {"RECORDED CRIME"}, lower |-> {}]
      [] sheet = "Table A4"       -> [upper |-> {}, lower |-> {}]
      [] sheet = "Category 1"     -> [upper |-> {}, lower |-> {"category", "1"}]
      [] sheet = "Category 2"     -> [upper |-> {}, lower |-> {"category"}]
      [] sheet = "AmbSYS C1"      -> [upper |-> {}, lower |-> {"c1", "1"}]
      [] sheet = "Response times" -> [upper |-> {}, lower |-> {"response"}]

\* the first sheet, whatever the names
recorded_crime_target_sheet_always_first(sheet_names) == sheet_names[1]

\* fetch_recorded_crime_data: the first sheet whose upper-cased name holds
\* 'P1' or 'RECORDED CRIME', the first sheet when there is none
recorded_crime_target_sheet(sheet_names) ==
    LET hits == {i \in 1..Len(sheet_names) :
                   {"P1", "RECORDED CRIME"} \cap SheetInfo(sheet_names[i]).upper # {}}
    IN IF hits = {} THEN sheet_names[1]
       ELSE sheet_names[CHOOSE i \in hits : \A j \in hits : i <= j]

\* fetch_ambulance_response_time: the first sheet whose lower-cased name
\* holds 'category' and '1', or 'c1', or 'response', the first sheet when
\* there is none
ambulance_target_sheet(sheet_names) ==
    LET hits == {i \in 1..Len(sheet_names) :
                   LET lower == SheetInfo(sheet_names[i]).lower IN
                   \/ {"category", "1"} \subseteq lower
                   \/ "c1" \in lower
                   \/ "response" \in lower}
    IN IF hits = {} THEN sheet_names[1]
       ELSE sheet_names[CHOOSE i \in hits : \A j \in hits : i <= j]

\* the workbooks: at least one sheet, no two sheets of one name, each sheet
\* with one of these grids
Workbooks(names, grids) ==
    {book \in SeqsUpTo({[name |-> n, rows |-> g] : n \in names, g \in grids}, MaxSheets) :
        /\ book # <<>>
        /\ \A i, j \in 1..Len(book) : book[i].name = book[j].name => i = j}

SheetNamesOf(book) == [i \in 1..Len(book) |-> book[i].name]

\* pd.read_excel(excel_file, sheet_name=target_sheet)
SheetNamed(book, target_sheet) ==
    [ok |-> TRUE, rows |-> (CHOOSE sheet \in Range(book) : sheet.name = target_sheet).rows]

RecordedCrimeBooks ==
    Workbooks({"Contents", "Table P1", "Table p1a", "Recorded crime", "Table A4"},
              {<<Cells(<<"England", "89.5">>)>>, <<Cells(<<"Total crime", "3", "120.5">>)>>})

AmbulanceBooks ==
    Workbooks({"Contents", "Category 1", "Category 2", "AmbSYS C1", "Response times"},
              {<<[org |-> "England", cell |-> {815}]>>, <<[org |-> "Trust", cell |-> {1200}]>>})

\* fetch_recorded_crime_data on a downloaded workbook
Call_recorded_crime_workbook ==
    /\ run = NoRun
    /\ \E book \in RecordedCrimeBooks :
          LET target_sheet == recorded_crime_target_sheet(SheetNamesOf(book)) IN
          run' = [fn |-> "fetch_recorded_crime_data", resp |-> Downloaded, book |-> book,
                  target_sheet |-> target_sheet, fault |-> "none",
                  result |-> fetch_recorded_crime_data(Downloaded,
                                SheetNamed(book, target_sheet), "none")]
    /\ UNCHANGED <<call, batch>>

\* fetch_ambulance_response_time on a downloaded workbook whose sheets hold
\* a column named for the Category 1 mean
Call_ambulance_workbook ==
    /\ run = NoRun
    /\ \E book \in AmbulanceBooks :
          LET target_sheet == ambulance_target_sheet(SheetNamesOf(book)) IN
          run' = [fn |-> "fetch_ambulance_response_time", resp |-> Downloaded, book |-> book,
                  target_sheet |-> target_sheet, fault |-> "none",
                  result |-> fetch_ambulance_response_time(Downloaded, Downloaded,
                                SheetNamed(book, target_sheet), "named", "none")]
    /\ UNCHANGED <<call, batch>>

NextSheets ==
    \/ Call_recorded_crime_workbook
    \/ Call_ambulance_workbook
    \/ CallReturned

SpecSheets == Init /\ [][NextSheets]_vars

(***************************************************************************)
(* The batch entry points. A batch calls its pipelines one after the other *)
(* and collects what they return; outcomes remembers, per pipeline called, *)
(* the value returned and the exception (if any) raised inside it.         *)
(***************************************************************************)

MaxMonths == 2

Outcome(result, fault) == [result |-> result, fault |-> fault]

\* A batch keeps the records of all its pipelines, so its pipelines read
\* files of at most one data row here: every kind of result a pipeline has
\* (a record from the file, the fallback record, None) is still among its
\* outcomes.  The pipelines on longer files are the steps of SpecFetch.
OneRow(bodies) == {b \in bodies : Len(b.rows) <= 1}

Short(seqs, n) == {q \in seqs : Len(q) <= n}

recorded_crime_outcomes ==
    {Outcome(fetch_recorded_crime_data(resp, body, fault), fault) :
        resp \in HttpResponses, body \in OneRow(Bodies(RecordedCrimeRows)), fault \in Faults}

charge_rate_outcomes ==
    {Outcome(fetch_charge_rate_data(in.resp, in.body, in.resp2, in.body2, in.fault), in.fault) :
        in \in [resp : HttpResponses, body : OneRow(Bodies(ChargeRows)), resp2 : HttpResponses,
                body2 : OneRow(Bodies(ChargeMainRows)), fault : Faults]}

perception_of_safety_outcomes ==
    {Outcome(fetch_perception_of_safety_data(resp, zip, fault), fault) :
        resp \in HttpResponses, zip \in {z \in PerceptionZips : Len(z.names) <= 1}, fault \in Faults}

crown_court_backlog_outcomes ==
    {Outcome(fetch_crown_court_backlog_data(resp, read.odf, read.body, fault), fault) :
        resp \in HttpResponses, read \in {r \in CrownCourtReads : Len(r.body.rows) <= 1}, fault \in Faults}

reoffending_rate_outcomes ==
    {Outcome(fetch_reoffending_rate_data(resp, fault), fault) :
        resp \in HttpResponses, fault \in Faults}

a_e_wait_time_outcomes ==
    {Outcome(fetch_a_e_wait_time(in.probe, in.resp, in.body, in.fault), in.fault) :
        in \in [probe : HttpResponses, resp : HttpResponses, body : OneRow(Bodies(AERows)),
                fault : Faults]}

a_e_historical_month_outcomes ==
    {Outcome(a_e_historical_month(in.probe, in.known, in.resp, in.body, in.fault), in.fault) :
        in \in [probe : HttpResponses, known : BOOLEAN, resp : HttpResponses,
                body : OneRow(Bodies(AERows)), fault : Faults]}

\* fetch_a_e_wait_time_historical: the records of the months that gave one,
\* in the order of the months; the exception of a month stays in the month
fetch_a_e_wait_time_historical(months) ==
    ListOf(SelectSeq([i \in 1..Len(months) |-> months[i].result], LAMBDA r : r # None))

RECURSIVE SeqsOfLen(_, _)
SeqsOfLen(S, n) ==
    IF n = 0 THEN {<<>>} ELSE {Append(q, x) : q \in SeqsOfLen(S, n - 1), x \in S}

AnyFault(months) ==
    IF \E i \in 1..Len(months) : months[i].fault # "none" THEN "extract" ELSE "none"

a_e_historical_outcomes ==
    {Outcome(fetch_a_e_wait_time_historical(months), AnyFault(months)) :
        months \in SeqsOfLen(a_e_historical_month_outcomes, MaxMonths)}

cancer_wait_time_outcomes ==
    {Outcome(fetch_cancer_wait_time(in.probe, in.resp, in.body, in.col, in.fault), in.fault) :
        in \in [probe : HttpResponses, resp : HttpResponses, body : OneRow(Bodies(CancerRows)),
                col : {"wait", "pct", "none"}, fault : Faults]}

ambulance_response_time_outcomes ==
    {Outcome(fetch_ambulance_response_time(in.probe, in.resp, in.body, in.col, in.fault),
             in.fault) :
        in \in [probe : HttpResponses, resp : HttpResponses, body : OneRow(Bodies(AmbulanceRows)),
                col : {"named", "sample", "none"}, fault : Faults]}

elective_backlog_outcomes ==
    {Outcome(fetch_elective_backlog(resp, body, fault), fault) :
        resp \in HttpResponses, body \in OneRow(Bodies(ElectiveRows)), fault \in Faults}

gp_appt_access_outcomes == {Outcome(fetch_gp_appt_access(fault), fault) : fault \in Faults}

staff_vacancy_rate_outcomes ==
    {Outcome(fetch_staff_vacancy_rate(fault), fault) : fault \in Faults}

csv_series_outcomes ==
    [metric_key \in Range(economy_keys) |->
        [historical \in BOOLEAN |->
            {Outcome(fetch_csv_series(metric_key, historical, resp, body, fault), fault) :
                resp \in HttpResponses, body \in Short(EconomyBodies(metric_key),
                                   IF metric_key \in {"output_per_hour", "business_investment"}
                                   THEN 3 ELSE 2), fault \in Faults}]]

ons_series_outcomes ==
    [metric_key \in Range(employment_keys) |->
        {Outcome(fetch_ons_series(metric_key, resp, lines, fault), fault) :
            resp \in HttpResponses, lines \in Short(SeqsUpTo(NarrowLines, MaxLines), 2),
            fault \in Faults}]

attainment8_outcomes ==
    {Outcome(fetch_attainment8_data(resp, table, fault), fault) :
        resp \in HttpResponses, table \in OneRow(DfeTables(Attainment8Rows)), fault \in Faults}

persistent_absence_outcomes ==
    {Outcome(fetch_persistent_absence_data(resp, table, fault), fault) :
        resp \in HttpResponses, table \in OneRow(DfeTables(AbsenceRows)), fault \in Faults}

apprentice_starts_outcomes ==
    {Outcome(fetch_apprentice_starts_data(resp, table, fault), fault) :
        resp \in HttpResponses, table \in OneRow(DfeTables(ApprenticeRows)), fault \in Faults}

total_population_outcomes ==
    {Outcome(fetch_total_population(resp, lines, fault), fault) :
        resp \in HttpResponses, lines \in Short(SeqsUpTo(NarrowLines, MaxLines), 2), fault \in Faults}

natural_change_outcomes ==
    {Outcome(fetch_natural_change(resp, book, fault), fault) :
        resp \in HttpResponses, book \in {v \in VitalBooks : Len(v.births) <= 1 /\ Len(v.deaths) <= 1}, fault \in Faults}

old_age_dependency_ratio_outcomes ==
    {Outcome(fetch_old_age_dependency_ratio(resp, book, fault), fault) :
        resp \in HttpResponses, book \in OneRow(SheetBooks(OadrRows)), fault \in Faults}

net_migration_outcomes ==
    {Outcome(fetch_net_migration(resp, book, fault), fault) :
        resp \in HttpResponses, book \in OneRow(SheetBooks(NetMigrationRows)), fault \in Faults}

healthy_life_expectancy_outcomes ==
    {Outcome(fetch_healthy_life_expectancy(resp, book, fault), fault) :
        resp \in HttpResponses, book \in OneRow(SheetBooks(HleRows)), fault \in Faults}

crime_pipelines ==
    <<"recorded_crime_rate", "charge_rate", "perception_of_safety", "crown_court_backlog",
      "reoffending_rate">>

education_pipelines ==
    <<"attainment8", "teacher_vacancy_rate", "neet_rate", "persistent_absence",
      "apprentice_starts">>

healthcare_pipelines ==
    <<"a_e_wait_time", "cancer_wait_time", "ambulance_response_time", "elective_backlog",
      "gp_appt_access", "staff_vacancy_rate">>

population_pipelines ==
    <<"total_population", "natural_change", "old_age_dependency_ratio", "net_migration",
      "healthy_life_expectancy">>

IsList(result) == "list" \in DOMAIN result

\* "if m: metrics.append(m)", and metrics.extend(...) for a list: what a
\* returned value adds to the batch's list
Added(result) ==
    IF result = None \/ result = Raise THEN <<>>
    ELSE IF IsList(result) THEN result.list
    ELSE <<result>>

BatchStart(entry, historical) ==
    [entry |-> entry, historical |-> historical, pc |-> 1, outcomes |-> <<>>,
     metrics |-> <<>>, status |-> "running"]

\* the call at pc has returned (or raised): an exception that leaves the
\* pipeline leaves the batch too, no batch has a handler of its own
Collected(b, key, o, added) ==
    [b EXCEPT !.pc = @ + 1,
              !.outcomes = Append(@, [key |-> key, result |-> o.result, fault |-> o.fault]),
              !.metrics = IF o.result = Raise THEN @ ELSE @ \o added,
              !.status = IF o.result = Raise THEN "raised" ELSE @]

\* rag_results as economy_data_fetcher.main builds it from the results of
\* fetch_all_economy_metrics
RECURSIVE economy_rag_results(_, _)
economy_rag_results(outcomes, historical) ==
    IF outcomes = <<>> THEN <<>>
    ELSE LET data == Head(outcomes).result
             taken == IF data = None THEN <<>>
                      ELSE IF historical THEN (IF IsList(data) THEN data.list ELSE <<>>)
                      ELSE IF IsList(data) /\ data.list = <<>> THEN <<>>
                      ELSE <<data>>
         IN taken \o economy_rag_results(Tail(outcomes), historical)

\* a placeholder record that names a live source
population_placeholder_unmarked(key) ==
    Record(key, StrV("placeholder"), "amber", CurrentYear, "ONS",
           population_SOURCE_URLS[key])

\* the record fetch_population_metrics puts in the place of a fetch that
\* gave nothing
population_placeholder(key) ==
    Record(key, StrV("placeholder"), "amber", CurrentYear, "Placeholder",
           population_SOURCE_URLS[key])

BatchEntries == {"crime", "economy", "education", "employment", "healthcare", "population"}

\* the pipelines a batch calls, in the order it calls them
PipelinesOf(entry) ==
    CASE entry = "crime" -> crime_pipelines
      [] entry = "economy" -> economy_keys
      [] entry = "education" -> education_pipelines
      [] entry = "employment" -> employment_keys
      [] entry = "healthcare" -> healthcare_pipelines
      [] entry = "population" -> population_pipelines

\* a batch that appends what is truthy and nothing else
Kept_omitting(entry, key, result) ==
    IF entry = "economy" THEN <<>> ELSE Added(result)

\* what the batch does with the value its pipeline returned: the economy
\* batch keeps it in results[key] until all five are in, the population batch
\* puts a placeholder record where it is None, the others append it if it is
\* truthy (the healthcare batch extends by the historical list)
Kept(entry, key, result) ==
    IF entry = "economy" THEN <<>>
    ELSE IF entry = "population" /\ result = None THEN <<population_placeholder(key)>>
    ELSE Added(result)

\* crime_data_fetcher.main is called
crime_main ==
    /\ batch = NoBatch
    /\ batch' = BatchStart("crime", FALSE)
    /\ UNCHANGED <<call, run>>

\* economy_data_fetcher.main is called, with or without --historical
economy_main ==
    /\ batch = NoBatch
    /\ \E historical \in BOOLEAN : batch' = BatchStart("economy", historical)
    /\ UNCHANGED <<call, run>>

\* fetch_all_education_metrics is called
fetch_all_education_metrics ==
    /\ batch = NoBatch
    /\ batch' = BatchStart("education", FALSE)
    /\ UNCHANGED <<call, run>>

\* employment_data_fetcher.main is called; fetch_employment_ons takes the
\* historical flag and does not use it
employment_main ==
    /\ batch = NoBatch
    /\ \E historical \in BOOLEAN : batch' = BatchStart("employment", historical)
    /\ UNCHANGED <<call, run>>

\* healthcare_data_fetcher.main is called, with or without --historical
healthcare_main ==
    /\ batch = NoBatch
    /\ \E historical \in BOOLEAN : batch' = BatchStart("healthcare", historical)
    /\ UNCHANGED <<call, run>>

\* fetch_population_metrics is called
fetch_population_metrics ==
    /\ batch = NoBatch
    /\ batch' = BatchStart("population", FALSE)
    /\ UNCHANGED <<call, run>>

\* the batch is about to call the pipeline of this key
AtPipeline(key) ==
    /\ batch # NoBatch /\ batch.status = "running"
    /\ batch.pc <= Len(PipelinesOf(batch.entry))
    /\ PipelinesOf(batch.entry)[batch.pc] = key

\* the batch's pipeline of this key returns or raises, with one of these
\* outcomes
Collect(key, outcomes) ==
    \E o \in outcomes : batch' = Collected(batch, key, o, Kept(batch.entry, key, o.result))

Batch_recorded_crime ==
    /\ AtPipeline("recorded_crime_rate")
    /\ Collect("recorded_crime_rate", recorded_crime_outcomes)
    /\ UNCHANGED <<call, run>>

Batch_charge_rate ==
    /\ AtPipeline("charge_rate")
    /\ Collect("charge_rate", charge_rate_outcomes)
    /\ UNCHANGED <<call, run>>

Batch_perception_of_safety ==
    /\ AtPipeline("perception_of_safety")
    /\ Collect("perception_of_safety", perception_of_safety_outcomes)
    /\ UNCHANGED <<call, run>>

Batch_crown_court_backlog ==
    /\ AtPipeline("crown_court_backlog")
    /\ Collect("crown_court_backlog", crown_court_backlog_outcomes)
    /\ UNCHANGED <<call, run>>

Batch_reoffending_rate ==
    /\ AtPipeline("reoffending_rate")
    /\ Collect("reoffending_rate", reoffending_rate_outcomes)
    /\ UNCHANGED <<call, run>>

Batch_attainment8 ==
    /\ AtPipeline("attainment8")
    /\ Collect("attainment8", attainment8_outcomes)
    /\ UNCHANGED <<call, run>>

Batch_teacher_vacancy ==
    /\ AtPipeline("teacher_vacancy_rate")
    /\ Collect("teacher_vacancy_rate", {Outcome(fetch_teacher_vacancy_data, "none")})
    /\ UNCHANGED <<call, run>>

Batch_neet ==
    /\ AtPipeline("neet_rate")
    /\ Collect("neet_rate", {Outcome(fetch_neet_data, "none")})
    /\ UNCHANGED <<call, run>>

Batch_persistent_absence ==
    /\ AtPipeline("persistent_absence")
    /\ Collect("persistent_absence", persistent_absence_outcomes)
    /\ UNCHANGED <<call, run>>

Batch_apprentice_starts ==
    /\ AtPipeline("apprentice_starts")
    /\ Collect("apprentice_starts", apprentice_starts_outcomes)
    /\ UNCHANGED <<call, run>>

Batch_cancer_wait_time ==
    /\ AtPipeline("cancer_wait_time")
    /\ Collect("cancer_wait_time", cancer_wait_time_outcomes)
    /\ UNCHANGED <<call, run>>

Batch_ambulance_response_time ==
    /\ AtPipeline("ambulance_response_time")
    /\ Collect("ambulance_response_time", ambulance_response_time_outcomes)
    /\ UNCHANGED <<call, run>>

Batch_elective_backlog ==
    /\ AtPipeline("elective_backlog")
    /\ Collect("elective_backlog", elective_backlog_outcomes)
    /\ UNCHANGED <<call, run>>

Batch_gp_appt_access ==
    /\ AtPipeline("gp_appt_access")
    /\ Collect("gp_appt_access", gp_appt_access_outcomes)
    /\ UNCHANGED <<call, run>>

Batch_staff_vacancy_rate ==
    /\ AtPipeline("staff_vacancy_rate")
    /\ Collect("staff_vacancy_rate", staff_vacancy_rate_outcomes)
    /\ UNCHANGED <<call, run>>

Batch_total_population ==
    /\ AtPipeline("total_population")
    /\ Collect("total_population", total_population_outcomes)
    /\ UNCHANGED <<call, run>>

Batch_natural_change ==
    /\ AtPipeline("natural_change")
    /\ Collect("natural_change", natural_change_outcomes)
    /\ UNCHANGED <<call, run>>

Batch_old_age_dependency_ratio ==
    /\ AtPipeline("old_age_dependency_ratio")
    /\ Collect("old_age_dependency_ratio", old_age_dependency_ratio_outcomes)
    /\ UNCHANGED <<call, run>>

Batch_net_migration ==
    /\ AtPipeline("net_migration")
    /\ Collect("net_migration", net_migration_outcomes)
    /\ UNCHANGED <<call, run>>

Batch_healthy_life_expectancy ==
    /\ AtPipeline("healthy_life_expectancy")
    /\ Collect("healthy_life_expectancy", healthy_life_expectancy_outcomes)
    /\ UNCHANGED <<call, run>>

\* the healthcare batch calls fetch_a_e_wait_time, or with --historical
\* fetch_a_e_wait_time_historical
Batch_a_e_wait_time ==
    /\ AtPipeline("a_e_wait_time") /\ ~batch.historical
    /\ Collect("a_e_wait_time", a_e_wait_time_outcomes)
    /\ UNCHANGED <<call, run>>

Batch_a_e_wait_time_historical ==
    /\ AtPipeline("a_e_wait_time") /\ batch.historical
    /\ Collect("a_e_wait_time", a_e_historical_outcomes)
    /\ UNCHANGED <<call, run>>

\* fetch_all_economy_metrics calls fetch_csv_series for its next key
Batch_csv_series ==
    /\ \E key \in Range(economy_keys) :
          /\ AtPipeline(key)
          /\ Collect(key, csv_series_outcomes[key][batch.historical])
    /\ UNCHANGED <<call, run>>

\* fetch_employment_ons calls _fetch_ons_series for its next key
Batch_ons_series ==
    /\ \E key \in Range(employment_keys) :
          /\ AtPipeline(key)
          /\ Collect(key, ons_series_outcomes[key])
    /\ UNCHANGED <<call, run>>

\* the batch has called all its pipelines and returns its list: the economy
\* batch builds it now, the employment batch adds its published estimates
BatchReturn ==
    /\ batch # NoBatch /\ batch.status = "running"
    /\ batch.pc > Len(PipelinesOf(batch.entry))
    /\ batch' = [batch EXCEPT
                    !.status = "returned",
                    !.metrics =
                        IF batch.entry = "economy"
                        THEN economy_rag_results(batch.outcomes, batch.historical)
                        ELSE IF batch.entry = "employment"
                        THEN @ \o EMPLOYMENT_PUBLISHED_ESTIMATES
                        ELSE @]
    /\ UNCHANGED <<call, run>>

\* the caller has the batch's list (or its exception)
BatchOver ==
    /\ batch # NoBatch /\ batch.status # "running"
    /\ batch' = NoBatch
    /\ UNCHANGED <<call, run>>

NextBatch ==
    \/ crime_main
    \/ economy_main
    \/ fetch_all_education_metrics
    \/ employment_main
    \/ healthcare_main
    \/ fetch_population_metrics
    \/ Batch_recorded_crime
    \/ Batch_charge_rate
    \/ Batch_perception_of_safety
    \/ Batch_crown_court_backlog
    \/ Batch_reoffending_rate
    \/ Batch_attainment8
    \/ Batch_teacher_vacancy
    \/ Batch_neet
    \/ Batch_persistent_absence
    \/ Batch_apprentice_starts
    \/ Batch_cancer_wait_time
    \/ Batch_ambulance_response_time
    \/ Batch_elective_backlog
    \/ Batch_gp_appt_access
    \/ Batch_staff_vacancy_rate
    \/ Batch_total_population
    \/ Batch_natural_change
    \/ Batch_old_age_dependency_ratio
    \/ Batch_net_migration
    \/ Batch_healthy_life_expectancy
    \/ Batch_a_e_wait_time
    \/ Batch_a_e_wait_time_historical
    \/ Batch_csv_series
    \/ Batch_ons_series
    \/ BatchReturn
    \/ BatchOver

SpecBatch == Init /\ [][NextBatch]_vars

(***************************************************************************)
(* The batches with the probing loop of fetch_a_e_wait_time taken one      *)
(* request at a time.                                                      *)
(***************************************************************************)

\* range(3): the months the loop goes back
a_e_months_back == 3

\* the candidate addresses of one month
a_e_url_patterns == 2

\* the loop that starts again with the first candidate after a miss
a_e_next_candidate_restarting(at) == [months_back |-> 0, pattern |-> 1]

\* the candidate the loops try after this one: the patterns of a month, then
\* the month before
a_e_next_candidate(at) ==
    IF at.pattern < a_e_url_patterns THEN [at EXCEPT !.pattern = @ + 1]
    ELSE [months_back |-> at.months_back + 1, pattern |-> 1]

\* fetch_a_e_wait_time is in its probing loop
Probing == run # NoRun /\ run.fn = "fetch_a_e_wait_time"

\* one requests.get of the probing loop returns, times out or raises: a
\* hit ends both loops, a miss goes on to the next candidate, and the loops
\* end after the last candidate
Probe_a_e_wait_time ==
    /\ AtPipeline("a_e_wait_time") /\ ~batch.historical
    /\ IF run = NoRun THEN TRUE ELSE Probing /\ ~run.done
    /\ \E response \in HttpResponses :
          LET at == IF run = NoRun THEN [months_back |-> 0, pattern |-> 1] ELSE run.at
              next == a_e_next_candidate(at)
          IN run' = [fn |-> "fetch_a_e_wait_time", at |-> next, probe |-> response,
                     done |-> ProbeFinds(response, 1000) \/ next.months_back >= a_e_months_back]
    /\ UNCHANGED <<call, batch>>

\* the loops are over: the download, the table and the record, and the
\* batch has the outcome
Batch_a_e_wait_time_probed ==
    /\ AtPipeline("a_e_wait_time") /\ ~batch.historical
    /\ Probing /\ run.done
    /\ Collect("a_e_wait_time",
               {Outcome(fetch_a_e_wait_time(run.probe, in.resp, in.body, in.fault), in.fault) :
                   in \in [resp : HttpResponses, body : OneRow(Bodies(AERows)), fault : Faults]})
    /\ run' = NoRun
    /\ UNCHANGED call

NextSchedule ==
    \/ crime_main
    \/ economy_main
    \/ fetch_all_education_metrics
    \/ employment_main
    \/ healthcare_main
    \/ fetch_population_metrics
    \/ Batch_recorded_crime
    \/ Batch_charge_rate
    \/ Batch_perception_of_safety
    \/ Batch_crown_court_backlog
    \/ Batch_reoffending_rate
    \/ Batch_attainment8
    \/ Batch_teacher_vacancy
    \/ Batch_neet
    \/ Batch_persistent_absence
    \/ Batch_apprentice_starts
    \/ Batch_cancer_wait_time
    \/ Batch_ambulance_response_time
    \/ Batch_elective_backlog
    \/ Batch_gp_appt_access
    \/ Batch_staff_vacancy_rate
    \/ Batch_total_population
    \/ Batch_natural_change
    \/ Batch_old_age_dependency_ratio
    \/ Batch_net_migration
    \/ Batch_healthy_life_expectancy
    \/ Batch_a_e_wait_time_historical
    \/ Batch_csv_series
    \/ Batch_ons_series
    \/ BatchReturn
    \/ BatchOver
    \/ Probe_a_e_wait_time
    \/ Batch_a_e_wait_time_probed

\* the program is one thread that makes its next call as soon as the last
\* one has returned, and every request carries a timeout
SpecSchedule == Init /\ [][NextSchedule]_vars /\ WF_vars(NextSchedule)

(***************************************************************************)
(* Claims about the classifiers (checked under SpecClassify).              *)
(***************************************************************************)

Called == call # NoCall

Registered == Called /\ call.key \in DOMAIN Thresholds(call.fetcher)

AscendingMetrics ==
    {<<"crime", "charge_rate">>, <<"crime", "perception_of_safety">>,
     <<"economy", "real_gdp_growth">>, <<"economy", "output_per_hour">>,
     <<"economy", "business_investment">>,
     <<"healthcare", "a_e_wait_time">>, <<"healthcare", "gp_appt_access">>,
     <<"defence", "defence_spending_gdp">>, <<"defence", "equipment_readiness">>,
     <<"defence", "personnel_strength">>}

DescendingMetrics ==
    {<<"crime", "recorded_crime_rate">>, <<"crime", "crown_court_backlog">>,
     <<"crime", "reoffending_rate">>,
     <<"healthcare", "cancer_wait_time">>, <<"healthcare", "ambulance_response_time">>,
     <<"healthcare", "elective_backlog">>, <<"healthcare", "staff_vacancy_rate">>,
     <<"economy", "public_sector_net_debt">>}

\* C1: for a higher-is-better metric of the crime, economy, healthcare and
\* defence classifiers the status is green iff value >= green, amber iff
\* amber <= value < green, red iff value < amber.
C1_AscendingBands ==
    (Called /\ <<call.fetcher, call.key>> \in AscendingMetrics) =>
        LET t == Thresholds(call.fetcher)[call.key] IN
        /\ (call.status = "green") <=> (call.value >= t.green)
        /\ (call.status = "amber") <=> (t.amber <= call.value /\ call.value < t.green)
        /\ (call.status = "red") <=> (call.value < t.amber)

C1_Witness ==
    /\ Called
    /\ call.fetcher = "crime" /\ call.key = "charge_rate"
    /\ call.value = crime_RAG_THRESHOLDS.charge_rate.amber
    /\ call.status = "amber"

C3_BoundaryIsBetterBand ==
    Registered =>
        LET t == Thresholds(call.fetcher)[call.key] IN
        /\ (call.value = t.green) => (call.status = "green")
        /\ (call.value = t.amber) => (call.status = "amber")

\* C4: cpi_inflation is green iff 1.5 <= value <= 2.5, amber iff value is in
\* [1.0, 3.5] but not in [1.5, 2.5], red otherwise.
C4_BandedCpi ==
    (Called /\ call.fetcher = "economy" /\ call.key = "cpi_inflation") =>
        LET inGreen == 150 <= call.value /\ call.value <= 250
            inAmber == 100 <= call.value /\ call.value <= 350
        IN  /\ (call.status = "green") <=> inGreen
            /\ (call.status = "amber") <=> (inAmber /\ ~inGreen)
            /\ (call.status = "red") <=> ~inAmber
            /\ (call.value \in {150, 250}) => (call.status = "green")
            /\ (call.value \in {100, 350}) => (call.status = "amber")
            /\ (call.value \in {90, 360}) => (call.status = "red")

C4_Witness ==
    /\ Called
    /\ call.fetcher = "economy" /\ call.key = "cpi_inflation"
    /\ call.value = 350 /\ call.status = "amber"

\* C5: a key that has no registered threshold policy in the classifier that
\* is called is classified amber, whatever the value.
C5_UnknownKeyAmber ==
    (Called /\ call.fetcher \in KeyedFetchers
            /\ call.key \notin RegisteredKeys(call.fetcher)) =>
        call.status = "amber"

C5_Witness ==
    /\ Called
    /\ call.fetcher = "crime" /\ call.key = UnknownKey
    /\ call.value = -100 /\ call.status = "amber"

(***************************************************************************)
(* Claims about one pipeline call (checked under SpecFetch).               *)
(***************************************************************************)

OkResponse == [kind |-> "resp", status |-> 200, len |-> 5000]

\* the pipelines that hold a static fallback value
FallbackPipelines ==
    {"fetch_recorded_crime_data", "fetch_charge_rate_data",
     "fetch_crown_court_backlog_data", "fetch_elective_backlog"}

FallbackValue(fn) ==
    CASE fn = "fetch_recorded_crime_data" -> recorded_crime_fallback
      [] fn = "fetch_charge_rate_data" -> charge_rate_fallback
      [] fn = "fetch_crown_court_backlog_data" -> crown_court_fallback
      [] fn = "fetch_elective_backlog" -> elective_backlog_headline

\* the request of the call in run raised (a timeout, a connection error)
RequestRaised == run.resp.kind = "raise"

\* the request of the call in run returned a 4xx/5xx response
NonSuccessStatus == run.resp.kind = "resp" /\ run.resp.status >= 400

\* the call in run took its value from the downloaded file
LiveParsed ==
    CASE run.fn = "fetch_recorded_crime_data" -> recorded_crime_scan(run.body.rows) # {}
      [] run.fn = "fetch_charge_rate_data" ->
            \/ charge_scan(run.body.rows, {}).rate # {}
            \/ charge_scan_main(run.body2.rows, {}) # {}
      [] run.fn = "fetch_crown_court_backlog_data" ->
            crown_court_inner(run.resp, run.odf, run.body, run.fault) # {}
      [] run.fn = "fetch_elective_backlog" ->
            /\ run.resp.status = 200 /\ run.resp.len >= 1000
            /\ \/ elective_first_pass(run.body.rows) # {}
               \/ elective_second_pass(run.body.rows, {}) # {}

\* the call in run downloaded and loaded its file(s) and found no
\* qualifying cell
NothingFound ==
    /\ run.resp = OkResponse
    /\ CASE run.fn = "fetch_crown_court_backlog_data" -> run.odf \/ run.body.ok
         [] run.fn = "fetch_charge_rate_data" ->
               run.body.ok /\ run.resp2 = OkResponse /\ run.body2.ok
         [] OTHER -> run.body.ok
    /\ ~LiveParsed

\* a record each pipeline returns when its file holds a qualifying value
LiveRecord(fn) ==
    CASE fn = "fetch_recorded_crime_data" ->
            fetch_recorded_crime_data(
                OkResponse, [ok |-> TRUE, rows |-> <<Cells(<<"England", "89.5">>)>>], "none")
      [] fn = "fetch_charge_rate_data" ->
            fetch_charge_rate_data(
                OkResponse, [ok |-> TRUE, rows |-> <<Cells(<<"Charge rate", "12.5%">>)>>],
                OkResponse, [ok |-> FALSE, rows |-> <<>>], "none")
      [] fn = "fetch_crown_court_backlog_data" ->
            fetch_crown_court_backlog_data(
                OkResponse, TRUE,
                [ok |-> TRUE, rows |-> <<Cells(<<"Crown Court open caseload", "68000">>)>>],
                "none")
      [] fn = "fetch_elective_backlog" ->
            fetch_elective_backlog(
                OkResponse,
                [ok |-> TRUE,
                 rows |-> <<Cells(<<"Total incomplete pathways", "3", "7,400,000">>)>>],
                "none")

\* pd.ExcelFile raises on the bytes of the first download, or the first
\* workbook holds no rate and pd.ExcelFile raises on the bytes of the second
ChargeLoadError ==
    /\ run.fn = "fetch_charge_rate_data"
    /\ run.fault = "none"
    /\ run.resp = OkResponse
    /\ IF run.body.ok
       THEN /\ charge_scan(run.body.rows, {}).rate = {}
            /\ run.resp2 = OkResponse
            /\ ~run.body2.ok
       ELSE TRUE

\* C6: whenever a download of fetch_charge_rate_data cannot be loaded as a
\* workbook (the first one, or the second one once the first gave no rate),
\* the call returns a record whose value is the fallback 7.2.
C6_LoadErrorFallsBack ==
    ChargeLoadError =>
        /\ run.result # None
        /\ run.result.value = NumV(charge_rate_fallback)

\* C7: a record that carries the static fallback value of its pipeline
\* (recorded crime, charge rate, Crown Court backlog, elective backlog) has a
\* data_source other than the data_source of the pipeline's live records.
C7_FallbackProvenanceDistinct ==
    (/\ run.fn \in FallbackPipelines
     /\ run.result # None
     /\ ~LiveParsed) =>
        run.result.data_source # LiveRecord(run.fn).data_source

\* C8: in each of the three failure cases (the request raises, the response
\* has a non-2xx status, the file is fetched and holds nothing qualifying) a
\* pipeline with a static fallback returns the record carrying that fallback.
C8_SameFallbackInFailureCases ==
    (/\ run.fn \in FallbackPipelines
     /\ run.fault = "none"
     /\ (RequestRaised \/ NonSuccessStatus \/ NothingFound)) =>
        /\ run.result # None
        /\ run.result.value = NumV(FallbackValue(run.fn))

(***************************************************************************)
(* Claims about the batch entry points (checked under SpecBatch).          *)
(***************************************************************************)

Returned == batch # NoBatch /\ batch.status = "returned"

\* the metrics of the claim that leave no record when their fetch fails
OmittedOnFailure == {"perception_of_safety"} \cup Range(economy_keys)

\* the metrics of the claim for which fetch_population_metrics fills in a
\* placeholder record
PlaceholderOnFailure == {"total_population", "natural_change", "net_migration"}

\* the positions of the batch's output that hold a record of this key
RecordsOf(key) == {i \in 1..Len(batch.metrics) : batch.metrics[i].metric_key = key}

\* the pipeline of this key was called and returned None
Failed(key) ==
    \E i \in 1..Len(batch.outcomes) :
        batch.outcomes[i].key = key /\ batch.outcomes[i].result = None

IsPlaceholder(r) == r.value[1] = "str"

RecordsIn(result) ==
    IF result = None \/ result = Raise THEN {}
    ELSE IF IsList(result) THEN Range(result.list)
    ELSE {result}

\* C10: no batch ends with an exception, whatever its pipelines ran into,
\* and the list a batch returns holds every record its pipelines returned.
C10_BatchIsolation ==
    batch # NoBatch =>
        /\ batch.status # "raised"
        /\ Returned =>
              \A i \in 1..Len(batch.outcomes) :
                  RecordsIn(batch.outcomes[i].result) \subseteq Range(batch.metrics)

\* a batch has returned in which one pipeline ran into an unexpected
\* exception and returned nothing, and the record of a sibling is in the
\* output
C10_Witness ==
    /\ Returned
    /\ \E i, j \in 1..Len(batch.outcomes) :
          /\ i # j
          /\ batch.outcomes[i].fault # "none"
          /\ batch.outcomes[i].result = None
          /\ RecordsIn(batch.outcomes[j].result) # {}
          /\ RecordsIn(batch.outcomes[j].result) \subseteq Range(batch.metrics)

(***************************************************************************)
(* Claims about the year-on-year transform (checked under SpecTransform).  *)
(***************************************************************************)

Transformed == run # NoRun /\ run.fn = "_compute_yoy_pct_change"

\* what a period label says: its shape, its year and its quarter (for a
\* year-month, its month)
PeriodParts(period) ==
    CASE period = "2022"    -> [shape |-> "year",    year |-> 2022, quarter |-> 0]
      [] period = "2023"    -> [shape |-> "year",    year |-> 2023, quarter |-> 0]
      [] period = "2024"    -> [shape |-> "year",    year |-> 2024, quarter |-> 0]
      [] period = "2023 Q1" -> [shape |-> "quarter", year |-> 2023, quarter |-> 1]
      [] period = "2024 Q1" -> [shape |-> "quarter", year |-> 2024, quarter |-> 1]
      [] period = "2025"    -> [shape |-> "year",    year |-> 2025, quarter |-> 0]
      [] period = "2024 JAN" -> [shape |-> "month",  year |-> 2024, quarter |-> 1]
      [] OTHER              -> [shape |-> "other",   year |-> 0,    quarter |-> 0]

\* q is the same period of the year before p
SamePeriodPriorYear(q, p) ==
    /\ PeriodParts(p).shape # "other"
    /\ PeriodParts(q).shape = PeriodParts(p).shape
    /\ PeriodParts(q).quarter = PeriodParts(p).quarter
    /\ PeriodParts(q).year = PeriodParts(p).year - 1

InputPeriods == {run.data_rows[i].date : i \in 1..Len(run.data_rows)}

\* the level of a period of the input: the value of its last row
Level(p) ==
    LET rows == {i \in 1..Len(run.data_rows) : run.data_rows[i].date = p}
    IN run.data_rows[CHOOSE i \in rows : \A j \in rows : j <= i].value

PriorsOf(p) == {q \in InputPeriods : SamePeriodPriorYear(q, p)}

\* the places of the output that hold a point of this period
PointsOf(p) == {i \in 1..Len(run.result.list) : run.result.list[i].date = p}

Abs(n) == IF n < 0 THEN -n ELSE n

\* v is 100 * (cur - prior) / prior rounded to two decimals, all in hundredths
IsYoyPct(v, cur, prior) == 2 * Abs(v * prior - 10000 * (cur - prior)) <= Abs(prior)

\* C11: the transform emits a point for a period iff the period is a year or
\* a year-quarter, the same period of the year before is in the input and its
\* level is not zero; the point's value is 100 * (cur - prior) / prior rounded
\* to two decimals; the levels 2023 Q1: 100, 2024 Q1: 110 give exactly
\* [2024 Q1: 10.0].
C11_YoyEmitsIff ==
    Transformed =>
        /\ run.result # Raise
        /\ \A p \in YoyPeriods :
              /\ PointsOf(p) # {} <=>
                    /\ p \in InputPeriods
                    /\ PriorsOf(p) # {}
                    /\ \A q \in PriorsOf(p) : Level(q) # 0
              /\ \A i \in PointsOf(p) : \A q \in PriorsOf(p) :
                    IsYoyPct(run.result.list[i].value, Level(p), Level(q))
        /\ run.data_rows = <<[date |-> "2023 Q1", value |-> 10000],
                             [date |-> "2024 Q1", value |-> 11000]>>
              => run.result = ListOf(<<[date |-> "2024 Q1", value |-> 1000]>>)

C11_Witness ==
    /\ Transformed
    /\ run.data_rows = <<[date |-> "2023 Q1", value |-> 10000],
                         [date |-> "2024 Q1", value |-> 11000]>>
    /\ run.result = ListOf(<<[date |-> "2024 Q1", value |-> 1000]>>)

\* C12: the transform returns normally on every input; a period whose prior
\* year level is zero, whose prior year is missing, or whose label is neither
\* a year nor a year-quarter is not in the output.
C12_YoyReturnsNormally ==
    Transformed =>
        /\ run.result # Raise
        /\ \A p \in InputPeriods :
              (\/ PeriodParts(p).shape = "other"
               \/ PriorsOf(p) = {}
               \/ \E q \in PriorsOf(p) : Level(q) = 0) => PointsOf(p) = {}

\* the transform has returned from an input with a zero prior-year level, a
\* period without prior year and a label that is no period
C12_Witness ==
    /\ Transformed
    /\ run.result # Raise
    /\ \E p \in InputPeriods : \E q \in PriorsOf(p) : Level(q) = 0
    /\ \E p \in InputPeriods : PeriodParts(p).shape # "other" /\ PriorsOf(p) = {}
    /\ \E p \in InputPeriods : PeriodParts(p).shape = "other"

\* (year, quarter) of a is not after (year, quarter) of b
NotAfter(a, b) ==
    \/ PeriodParts(a).year < PeriodParts(b).year
    \/ /\ PeriodParts(a).year = PeriodParts(b).year
       /\ PeriodParts(a).quarter <= PeriodParts(b).quarter

\* C13: the output of the transform is strictly ascending by period label (so
\* no period occurs twice), its periods are periods of the input, and when
\* its labels have one shape its last point is the chronologically latest.
C13_YoyAscending ==
    (Transformed /\ run.result # Raise) =>
        LET out == run.result.list IN
        /\ \A i, j \in 1..Len(out) :
              i < j => PeriodRank(out[i].date) < PeriodRank(out[j].date)
        /\ \A i \in 1..Len(out) : out[i].date \in InputPeriods
        /\ (/\ out # <<>>
            /\ \A i \in 1..Len(out) :
                  PeriodParts(out[i].date).shape = PeriodParts(out[1].date).shape) =>
              \A i \in 1..Len(out) : NotAfter(out[i].date, out[Len(out)].date)

\* the input rows come latest first and the output holds two points
C13_Witness ==
    /\ Transformed
    /\ run.result # Raise
    /\ Len(run.data_rows) = 3
    /\ run.data_rows[1].date = "2024" /\ run.data_rows[3].date = "2022"
    /\ Len(run.result.list) = 2

(***************************************************************************)
(* Claims about the series extractors (checked under SpecExtract).         *)
(***************************************************************************)

NarrowKeys == {"real_gdp_growth", "cpi_inflation", "public_sector_net_debt"}

Parsed == run # NoRun /\ run.fn = "_parse_ons_csv"

FetchedNarrow == run # NoRun /\ run.fn = "fetch_csv_series" /\ run.metric_key \in NarrowKeys

FetchedWide == run # NoRun /\ run.fn = "fetch_csv_series" /\ run.metric_key \notin NarrowKeys

\* the points of the series a run extracted: the rows _parse_ons_csv returned,
\* or the records of a historical fetch (none when it reported a failure)
ExtractedSeries ==
    IF Parsed THEN run.result.list
    ELSE IF run.result = None THEN <<>>
    ELSE [i \in 1..Len(run.result.list) |->
            [date |-> run.result.list[i].time_period, value |-> run.result.list[i].value[2]]]

\* the series of a run is in view: a parsed text or a historical fetch
SeriesInView == Parsed \/ (run # NoRun /\ run.fn = "fetch_csv_series" /\ run.historical)

\* the point a line of two quoted fields holds: its label and its number
\* (no element: the second field is no number, or the line has no two fields)
LinePoint(line) ==
    CASE line = Line2024    -> {[date |-> "2024", value |-> 8950]}
      [] line = Line2025    -> {[date |-> "2025", value |-> 9120]}
      [] line = Line2024Q1  -> {[date |-> "2024 Q1", value |-> 70]}
      [] line = Line2024JAN -> {[date |-> "2024 JAN", value |-> 360]}
      [] OTHER              -> {}

\* the lines that mark the start of the data: a first field that is a year
\* or a year-quarter, for employment a year-month as well
StartsData(line) ==
    \/ line \in {Line2024, Line2025, Line2024Q1, Line2024Q2}
    \/ Parsed /\ run.module = "employment" /\ line = Line2024JAN

DataLines == {i \in 1..Len(run.body) : StartsData(run.body[i])}

FirstDataLine == CHOOSE i \in DataLines : \A j \in DataLines : i <= j

\* the text has a metadata preamble and a data-start line below it
HasPreamble == DataLines # {} /\ FirstDataLine > 1

\* the points of the lines at or after the data-start line, in source order
PointsFromDataStart ==
    LET lines == SubSeq(run.body, FirstDataLine, Len(run.body))
        held == SelectSeq(lines, LAMBDA l : LinePoint(l) # {})
    IN [i \in 1..Len(held) |-> CHOOSE pt \in LinePoint(held[i]) : TRUE]

\* C14: for a narrow CSV with a metadata preamble the extracted series is,
\* in source order, the points of the lines at or after the data-start line
\* that have two quoted fields and a numeric second field; blank lines and
\* lines whose value is no number are skipped; meta, meta, "2024","89.5",
\* "2025","91.2" give [2024: 89.5, 2025: 91.2], the last value being 91.2.
C14_NarrowSeriesInSourceOrder ==
    /\ ((Parsed \/ FetchedNarrow) /\ HasPreamble) =>
          /\ SeriesInView => ExtractedSeries = PointsFromDataStart
          /\ (~SeriesInView /\ PointsFromDataStart # <<>>) =>
                /\ run.result # None
                /\ run.result.time_period = PointsFromDataStart[Len(PointsFromDataStart)].date
                /\ run.result.value = NumV(PointsFromDataStart[Len(PointsFromDataStart)].value)
    /\ ((Parsed \/ FetchedNarrow) /\ SeriesInView
          /\ run.body = <<LineTitle, LineTitle, Line2024, Line2025>>) =>
          ExtractedSeries = <<[date |-> "2024", value |-> 8950],
                              [date |-> "2025", value |-> 9120]>>

\* a historical fetch of meta, "2024","89.5", a blank line and "2025","91.2"
\* returned the two points
C14_Witness ==
    /\ FetchedNarrow
    /\ run.historical
    /\ run.body = <<LineTitle, Line2024, LineBlank, Line2025>>
    /\ ExtractedSeries = <<[date |-> "2024", value |-> 8950], [date |-> "2025", value |-> 9120]>>

\* C15: in every series the extractors return (narrow and wide layout), for
\* any order of the source rows, the last point is the point with the latest
\* period: no point of the last point's shape is later than the last point.
C15_LatestPointLast ==
    (SeriesInView /\ ExtractedSeries # <<>>) =>
        LET series == ExtractedSeries
            last == series[Len(series)].date
        IN \A i \in 1..Len(series) :
              PeriodParts(series[i].date).shape = PeriodParts(last).shape =>
                 NotAfter(series[i].date, last)

\* C16: all points of a series of the narrow-CSV extractors have labels of
\* one shape, all bare years or all year-quarters.
C16_OneShapePerSeries ==
    ((Parsed \/ FetchedNarrow) /\ SeriesInView) =>
        LET series == ExtractedSeries IN
        \/ \A i \in 1..Len(series) : PeriodParts(series[i].date).shape = "year"
        \/ \A i \in 1..Len(series) : PeriodParts(series[i].date).shape = "quarter"

\* the number a field of a dataset CSV parses to (no element: it is no number)
FieldNumber(text) ==
    CASE text = "0"    -> {0}
      [] text = "95"   -> {9500}
      [] text = "100"  -> {10000}
      [] text = "110"  -> {11000}
      [] text = "2024" -> {202400}
      [] OTHER         -> {}

\* the first fields that contain ' Q'
QuarterFields == {"2023 Q1", "2024 Q1"}

SeriesCode == IF run.metric_key = "output_per_hour" THEN "LZVD" ELSE "NPEL"

\* the columns of the second row that hold the series code
CodeColumns ==
    IF Len(run.body) < 2 THEN {}
    ELSE {c \in 1..Len(run.body[2]) : run.body[2][c].text = SeriesCode}

CodeColumn == CHOOSE c \in CodeColumns : \A o \in CodeColumns : c <= o

\* a row below the second row yields a point: its first field contains ' Q',
\* it is long enough and its cell in the series' column is a number
YieldsPoint(row) ==
    /\ Len(row) >= CodeColumn
    /\ row[1].text \in QuarterFields
    /\ FieldNumber(row[CodeColumn].text) # {}

\* one point for each such row, in row order
PointsOfRows ==
    IF CodeColumns = {} THEN <<>>
    ELSE LET held == SelectSeq(SubSeq(run.body, 3, Len(run.body)), YieldsPoint)
         IN [i \in 1..Len(held) |->
                [date |-> held[i][1].text,
                 value |-> CHOOSE n \in FieldNumber(held[i][CodeColumn].text) : TRUE]]

\* C17: in the wide layout the series-code column is found in the second row;
\* each later row whose first field contains ' Q', that reaches that column
\* and whose cell there is a number yields exactly one point, in row order,
\* and no other row yields one (for business investment these points are the
\* levels the year-on-year change is computed from); without the series code
\* in the second row, or without such a row, the fetch reports a failure.
C17_WidePointsInRowOrder ==
    FetchedWide =>
        /\ PointsOfRows = <<>> => run.result = None
        /\ (run.metric_key = "output_per_hour" /\ PointsOfRows # <<>>) =>
              /\ run.result # None
              /\ run.historical => ExtractedSeries = PointsOfRows
              /\ ~run.historical =>
                    /\ run.result.time_period = PointsOfRows[Len(PointsOfRows)].date
                    /\ run.result.value = NumV(PointsOfRows[Len(PointsOfRows)].value)
        /\ (run.metric_key = "business_investment" /\ run.historical) =>
              \A i \in 1..Len(ExtractedSeries) :
                 \E j \in 1..Len(PointsOfRows) : PointsOfRows[j].date = ExtractedSeries[i].date

\* a historical fetch of output per hour from a file with the series code in
\* the third column, a quarter's row and a year's row returned the quarter
C17_Witness ==
    /\ FetchedWide
    /\ run.metric_key = "output_per_hour"
    /\ run.historical
    /\ Len(run.body) = 4
    /\ CodeColumns = {3}
    /\ Len(run.body[4]) = 3
    /\ run.body[4][1].text = "2024"
    /\ ExtractedSeries = <<[date |-> "2023 Q1", value |-> 10000]>>

(***************************************************************************)
(* Claims about the cell matchers and the loaders (checked under           *)
(* SpecFetch).                                                             *)
(***************************************************************************)

\* fetch_recorded_crime_data loaded a sheet and scanned it
ScannedRecordedCrime ==
    /\ run # NoRun
    /\ run.fn = "fetch_recorded_crime_data"
    /\ run.resp = OkResponse /\ run.body.ok /\ run.fault = "none"

\* the case-folded text of the row contains 'england', or 'total' and 'crime'
NamesEnglandOrTotalCrime(row) ==
    \E i \in 1..Len(row) : row[i].text \in {"England", "Total crime"}

\* the number a cell of the recorded crime sheet holds, in hundredths
CrimeCellNumber(text) ==
    CASE text = "3"     -> {300}
      [] text = "89.5"  -> {8950}
      [] text = "120.5" -> {12050}
      [] OTHER          -> {}

\* the columns of a row that hold a number between lo and hi
ColumnsInRange(row, lo, hi) ==
    {i \in 1..Len(row) : \E n \in CrimeCellNumber(row[i].text) : lo <= n /\ n <= hi}

\* the rows that carry the keywords and a number between 50 and 150
MatchingRows ==
    {r \in 1..Len(run.body.rows) :
        /\ NamesEnglandOrTotalCrime(run.body.rows[r])
        /\ ColumnsInRange(run.body.rows[r], 5000, 15000) # {}}

\* the leftmost number between 50 and 150 of the topmost matching row
TopLeftMatch ==
    IF MatchingRows = {} THEN {}
    ELSE LET r == CHOOSE r \in MatchingRows : \A o \in MatchingRows : r <= o
             cols == ColumnsInRange(run.body.rows[r], 5000, 15000)
             c == CHOOSE c \in cols : \A o \in cols : c <= o
         IN CrimeCellNumber(run.body.rows[r][c].text)

\* C18: the recorded-crime matcher returns the leftmost numeric cell with
\* 50 <= value <= 150 of the topmost row whose text contains 'england', or
\* 'total' and 'crime', and that has such a cell; rows without the keywords
\* never contribute; without such a row and cell no value is found (the
\* record then holds the estimate). The row England, Total crime, 89.5 gives
\* 89.5 with the range 50..150 and nothing with the range 200..300.
C18_TopmostRowFirstCell ==
    ScannedRecordedCrime =>
        /\ recorded_crime_scan(run.body.rows) = TopLeftMatch
        /\ \A n \in TopLeftMatch :
              run.result.value = NumV(n) /\ run.result.time_period = CurrentQuarter
        /\ TopLeftMatch = {} => run.result.value = NumV(recorded_crime_fallback)
        /\ \A r \in 1..Len(run.body.rows) :
              run.body.rows[r] = Cells(<<"England", "Total crime", "89.5">>) =>
                 /\ FirstCellInRange(run.body.rows[r], "comma", 5000, 15000) = {8950}
                 /\ FirstCellInRange(run.body.rows[r], "comma", 20000, 30000) = {}

\* a row with a number in range but without the keywords came first, the
\* row England, Total crime, 89.5 second, and the matcher returned 89.5
C18_Witness ==
    /\ ScannedRecordedCrime
    /\ Len(run.body.rows) = 2
    /\ run.body.rows[1] = Cells(<<"120.5">>)
    /\ run.body.rows[2] = Cells(<<"England", "Total crime", "89.5">>)
    /\ run.result.value = NumV(8950)
    /\ recorded_crime_scan(run.body.rows) = {8950}

(***************************************************************************)
(* Claims about the archive loader (checked under SpecArchive).            *)
(***************************************************************************)

ArchiveScanned == run # NoRun /\ run.fn = "fetch_perception_of_safety_data" /\ run.body.ok

\* the places of the archive whose entry's name ends in .csv or .xlsx
MatchingEntries ==
    {i \in 1..Len(run.body.names) : run.body.names[i].ext \in {".csv", ".xlsx"}}

\* the value the entry at this place holds: the percentage of its 'safe' row
EntryValue(i) ==
    LET rows == run.body.names[i].body.rows IN
    IF rows = <<>> THEN {}
    ELSE CASE rows[1][2].text = "62.0" -> {6200}
           [] rows[1][2].text = "89.5" -> {8950}
           [] OTHER                    -> {}

\* the matching entries that hold a value
ValuedEntries == {i \in MatchingEntries : EntryValue(i) # {}}

FirstValuedEntry == CHOOSE i \in ValuedEntries : \A o \in ValuedEntries : i <= o

\* C19: every entry of the archive that ends in .csv or .xlsx is loaded and
\* scanned, in archive order, until a value is found, however many such
\* entries there are, and no other entry is loaded: when the matching entries
\* load, the value of the first of them that holds one is found, also when
\* that is the fourth entry or a later one.
C19_EveryMatchingEntryScanned ==
    (ArchiveScanned /\ \A i \in MatchingEntries : run.body.names[i].body.ok) =>
        IF ValuedEntries = {} THEN run.result = None
        ELSE /\ run.result # None
             /\ run.result.value = NumV(CHOOSE n \in EntryValue(FirstValuedEntry) : TRUE)

(***************************************************************************)
(* Claims about the ODS loads (checked under SpecFetch).                   *)
(***************************************************************************)

\* a pipeline that loads an ODS file downloaded it, and the load with the
\* ODS engine failed
OdsEngineFailed ==
    /\ run # NoRun
    /\ run.fn \in {"fetch_crown_court_backlog_data", "fetch_defence_spending"}
    /\ run.resp = OkResponse
    /\ ~run.odf
    /\ run.fault = "none"

\* C20: in the pipelines that load an ODS file (crown_court_backlog,
\* defence_spending_gdp), when the load with the ODS engine fails the generic
\* engine is tried on the same bytes before the file is given up; when both
\* loads fail the metric takes its fallback and a record is still emitted.
C20_OdsRetriedWithGenericEngine ==
    OdsEngineFailed =>
        /\ run.engines = <<"odf", "default">>
        /\ ~run.body.ok => run.result # None

(***************************************************************************)
(* Claims about the choice of the sheet (checked under SpecSheets).        *)
(***************************************************************************)

SheetChosen ==
    /\ run # NoRun
    /\ run.fn \in {"fetch_recorded_crime_data", "fetch_ambulance_response_time"}

\* the sheet names that match the keyword hint of the pipeline
HintedSheets ==
    IF run.fn = "fetch_recorded_crime_data"
    THEN {"Table P1", "Table p1a", "Recorded crime"}
    ELSE {"Category 1", "AmbSYS C1", "Response times"}

\* the places of the workbook whose sheet matches the hint
HintedPlaces == {i \in 1..Len(run.book) : run.book[i].name \in HintedSheets}

\* the sheet the claim names: the first that matches, else the first
SheetDue ==
    IF HintedPlaces = {} THEN run.book[1]
    ELSE run.book[CHOOSE i \in HintedPlaces : \A j \in HintedPlaces : i <= j]

\* the value read from the one row of a sheet, in hundredths
SheetValue(sheet) ==
    IF run.fn = "fetch_recorded_crime_data"
    THEN (IF sheet.rows[1][1].text = "England" THEN 8950 ELSE 12050)
    ELSE (IF sheet.rows[1].org = "England" THEN 820 ELSE 1200)

EmploymentFetched == run # NoRun /\ run.fn = "fetch_employment_ons"

\* the number of points of the series a text holds below its title line
PointCount(lines) == Cardinality({i \in 2..Len(lines) : LinePoint(lines[i]) # {}})

\* the records of the returned list that belong to this metric
RecordsOfKey(key) ==
    SelectSeq(run.result.list, LAMBDA m : m.metric_key = key)

\* no two records of the sequence have the same period
DistinctPeriods(records) ==
    \A i, j \in 1..Len(records) : records[i].time_period = records[j].time_period => i = j

\* the lines of the text name each period once
EachPeriodOnce ==
    \A i, j \in 1..Len(run.body) :
       (LinePoint(run.body[i]) # {} /\ LinePoint(run.body[i]) = LinePoint(run.body[j])) => i = j

\* C22: with the historical flag a metric yields one record per period of
\* its series, as many records as the series has points and no two of one
\* period; without the flag it yields the single latest record. Stated for
\* the economy series of the narrow layout and for fetch_employment_ons.
C22_OneRecordPerPeriod ==
    /\ (FetchedNarrow /\ HasPreamble /\ EachPeriodOnce /\ PointsFromDataStart # <<>>) =>
          IF run.historical
          THEN /\ IsList(run.result)
               /\ Len(run.result.list) = Len(PointsFromDataStart)
               /\ DistinctPeriods(run.result.list)
          ELSE ~IsList(run.result) /\ run.result # None
    /\ EmploymentFetched =>
          \A k \in 1..Len(employment_keys) :
             LET records == RecordsOfKey(employment_keys[k])
                 points == PointCount(run.body[k])
             IN IF run.historical
                THEN Len(records) = points /\ DistinctPeriods(records)
                ELSE Len(records) = (IF points = 0 THEN 0 ELSE 1)

(***************************************************************************)
(* Claims about the batches' placeholder records (checked under SpecBatch).*)
(***************************************************************************)

\* the keys of the population batch in the order the claim gives them
PopulationOrder ==
    <<"total_population", "natural_change", "old_age_dependency_ratio", "net_migration",
      "healthy_life_expectancy">>

\* C23: whatever fetches of fetch_population_metrics succeed or fail, the
\* list it returns has exactly five records, of total_population,
\* natural_change, old_age_dependency_ratio, net_migration and
\* healthy_life_expectancy in this order, and every record whose value is
\* the literal "placeholder" has amber status and data_source "Placeholder".
C23_FivePopulationRecords ==
    (Returned /\ batch.entry = "population") =>
        /\ Len(batch.metrics) = 5
        /\ \A i \in 1..5 : batch.metrics[i].metric_key = PopulationOrder[i]
        /\ \A i \in 1..Len(batch.metrics) :
              batch.metrics[i].value = StrV("placeholder") =>
                 /\ batch.metrics[i].rag_status = "amber"
                 /\ batch.metrics[i].data_source = "Placeholder"

\* a population batch has returned in which one fetch failed and an earlier
\* and a later one gave a record of their source
C23_Witness ==
    /\ Returned /\ batch.entry = "population"
    /\ Len(batch.metrics) = 5
    /\ batch.outcomes[1].result # None /\ batch.metrics[1].value[1] = "num"
    /\ batch.outcomes[2].result = None /\ batch.metrics[2].value = StrV("placeholder")
    /\ batch.outcomes[5].result # None /\ batch.metrics[5].value[1] = "num"

\* fetch_all_economy_metrics has returned its dictionary: batch.outcomes
\* holds its entries in the order of the keys
EconomyFetched ==
    batch # NoBatch /\ batch.entry = "economy" /\ batch.pc > Len(economy_keys)

\* C24: the dictionary fetch_all_economy_metrics returns has an entry for
\* each of the five economy keys, and no entry is None: where the source of
\* a metric is missing or fails the entry is a record with the value
\* "placeholder" and amber status.
C24_EconomyPlaceholderEntries ==
    EconomyFetched =>
        /\ Len(batch.outcomes) = Len(economy_keys)
        /\ \A k \in 1..Len(economy_keys) :
              /\ batch.outcomes[k].key = economy_keys[k]
              /\ batch.outcomes[k].result # None
              /\ batch.outcomes[k].fault # "none" =>
                    /\ ~IsList(batch.outcomes[k].result)
                    /\ batch.outcomes[k].result.value = StrV("placeholder")
                    /\ batch.outcomes[k].result.rag_status = "amber"

(***************************************************************************)
(* Claims about the order of a batch (checked under SpecSchedule).         *)
(***************************************************************************)

Running == batch # NoBatch /\ batch.status = "running"

\* the batch has the outcome of each of its pipelines, once and in order
RanEveryPipelineOnce ==
    /\ Len(batch.outcomes) = Len(PipelinesOf(batch.entry))
    /\ \A i \in 1..Len(batch.outcomes) : batch.outcomes[i].key = PipelinesOf(batch.entry)[i]

\* the pipelines that have reached their outcome are the first ones of the
\* batch's order, and a pipeline that is still probing is the next one
OneAfterAnother ==
    batch # NoBatch =>
        /\ Len(batch.outcomes) <= Len(PipelinesOf(batch.entry))
        /\ \A i \in 1..Len(batch.outcomes) : batch.outcomes[i].key = PipelinesOf(batch.entry)[i]
        /\ Running => batch.pc = Len(batch.outcomes) + 1
        /\ Probing => /\ Running
                      /\ PipelinesOf(batch.entry)[Len(batch.outcomes) + 1] = "a_e_wait_time"
                      /\ run.at.months_back <= a_e_months_back

\* C25: in a batch the pipelines run one after another in a fixed order,
\* each with its outcome before the next starts, the probing loop tries a
\* bounded number of addresses, and given that every request returns or
\* times out a running batch ends having run every pipeline exactly once.
C25_OneAfterAnotherToTheEnd ==
    /\ []OneAfterAnother
    /\ Running ~> (Returned /\ RanEveryPipelineOnce)

\* a healthcare batch, whose first pipeline probes for its file, has
\* returned with the outcomes of its six pipelines, records among them
C25_Witness ==
    /\ Returned /\ batch.entry = "healthcare" /\ ~batch.historical
    /\ RanEveryPipelineOnce
    /\ Len(batch.metrics) > 1

(***************************************************************************)
(* Claims about the chain of sources of the Resolution Foundation fetcher  *)
(* (checked under SpecFetch).                                              *)
(***************************************************************************)

RfFetched == run # NoRun /\ run.fn = "fetch_employment_data"

\* the download of the direct address failed, the workbook did not load, or
\* it has no row at all
RfDirectFailed ==
    \/ run.resp.kind = "raise"
    \/ run.resp.status >= 400
    \/ ~run.body.ok
    \/ run.body.rows = <<>>

\* C26: fetch_employment_data goes down its chain of sources, the direct
\* workbook, then the link on the employment page, then the published
\* estimates, so that whenever the direct download fails or yields no data
\* the result is a non-empty list of records and never None.
C26_RfFallsBackToEstimates ==
    (RfFetched /\ RfDirectFailed) =>
        /\ run.result # None
        /\ IsList(run.result)
        /\ run.result.list # <<>>

(***************************************************************************)
(* Claims about the second pass of fetch_elective_backlog (checked under   *)
(* SpecFetch).                                                             *)
(***************************************************************************)

\* the number a cell of the RTT overview holds once its commas are removed
ElectiveCellNumber(text) ==
    CASE text = "3"         -> {300}
      [] text = "6500000"   -> {650000000}
      [] text = "7,400,000" -> {740000000}
      [] OTHER              -> {}

\* the columns of a row that hold a number between 4,000,000 and 10,000,000
ElectiveColumns(row) ==
    {i \in 1..Len(row) :
        \E n \in ElectiveCellNumber(row[i].text) : 400000000 <= n /\ n <= 1000000000}

\* fetch_elective_backlog has read a loaded workbook
ElectiveScanned ==
    /\ run # NoRun /\ run.fn = "fetch_elective_backlog"
    /\ run.resp.kind = "resp" /\ run.resp.status = 200 /\ run.resp.len >= 1000
    /\ run.body.ok /\ run.fault = "none"

\* no 'total ... incomplete' row has a number in the range
NoTotalIncompleteValue ==
    \A i \in 1..Len(run.body.rows) :
       run.body.rows[i][1].text = "Total incomplete pathways" =>
          ElectiveColumns(run.body.rows[i]) = {}

ElectiveRowsInRange == {i \in 1..Len(run.body.rows) : ElectiveColumns(run.body.rows[i]) # {}}

\* the first cell in the range, rows from the top, cells from the left
FirstInRowMajorOrder ==
    LET r == CHOOSE r \in ElectiveRowsInRange : \A o \in ElectiveRowsInRange : r <= o
        cols == ElectiveColumns(run.body.rows[r])
        c == CHOOSE c \in cols : \A o \in cols : c <= o
    IN CHOOSE n \in ElectiveCellNumber(run.body.rows[r][c].text) : TRUE

\* C27: when no 'total ... incomplete' row yields a value, the second pass
\* of fetch_elective_backlog takes the first cell with a number between
\* 4,000,000 and 10,000,000 in row-major order, and no cell of a later row
\* replaces it.
C27_FirstCellInRowMajorOrder ==
    (ElectiveScanned /\ NoTotalIncompleteValue /\ ElectiveRowsInRange # {}) =>
        run.result.value = NumV(FirstInRowMajorOrder)

(***************************************************************************)
(* Claims about the status of the emitted value (checked under SpecBatch). *)
(***************************************************************************)

\* C28: every record of a batch with a numeric value has the status the
\* classifier of its fetcher gives for the value the record holds and the
\* record's metric key, also where the value was rounded for the record
\* (for the metrics the fetcher has a rule for).
C28_StatusOfEmittedValue ==
    batch # NoBatch =>
        \A i \in 1..Len(batch.metrics) :
           (/\ batch.metrics[i].value[1] = "num"
            /\ batch.metrics[i].metric_key \in RegisteredKeys(batch.entry)) =>
              batch.metrics[i].rag_status =
                 Classify(batch.entry, batch.metrics[i].metric_key, batch.metrics[i].value[2])

(***************************************************************************)
(* Claims about the data start of the narrow layout (checked under         *)
(* SpecExtract).                                                           *)
(***************************************************************************)

\* the run returned a non-empty series (for a latest-only fetch: a record)
GaveSeries ==
    IF Parsed THEN run.result.list # <<>>
    ELSE run.result # None /\ (IsList(run.result) => run.result.list # <<>>)

\* C29: line index 0 stands for 'no data start found' in the narrow
\* extractors. The series is non-empty exactly if the data-start line, the
\* first line that qualifies, is at index 1 or later and some line from
\* there on holds a point; if it is line 0, a text without preamble, the
\* extraction is empty or failed even though the lines hold points.
C29_LineZeroIsNotFound ==
    (Parsed \/ FetchedNarrow) =>
        /\ GaveSeries <=> (HasPreamble /\ PointsFromDataStart # <<>>)
        /\ (DataLines # {} /\ FirstDataLine = 1) => ~GaveSeries

\* a historical fetch of a text without preamble, "2024","89.5" and
\* "2025","91.2", reported a failure
C29_Witness ==
    /\ FetchedNarrow /\ run.historical
    /\ run.body = <<Line2024, Line2025>>
    /\ PointsFromDataStart = <<[date |-> "2024", value |-> 8950],
                               [date |-> "2025", value |-> 9120]>>
    /\ run.result = None

(***************************************************************************)
(* Claims about the two modes of the economy fetch (checked under          *)
(* SpecExtract).                                                           *)
(***************************************************************************)

FetchedBothModes == run # NoRun /\ run.fn = "fetch_csv_series (both modes)"

\* the series of the response: the points of the narrow text, the points of
\* the rows of the dataset, or the year-on-year changes derived from them
SeriesOfResponse ==
    IF run.metric_key \in NarrowKeys THEN PointsFromDataStart
    ELSE IF run.metric_key = "output_per_hour" THEN PointsOfRows
    ELSE compute_yoy_pct_change(PointsOfRows)

\* C30: for every economy metric and every response from which a value is
\* extracted, the record of the latest-only mode has the value, time_period
\* and rag_status of the last record of the historical list for the same
\* response, and the historical list has one record per point of the
\* (derived) series, in the order of the series.
C30_LatestIsLastOfHistorical ==
    (FetchedBothModes /\ run.latest # None) =>
        /\ IsList(run.all)
        /\ run.all.list # <<>>
        /\ run.latest.value = run.all.list[Len(run.all.list)].value
        /\ run.latest.time_period = run.all.list[Len(run.all.list)].time_period
        /\ run.latest.rag_status = run.all.list[Len(run.all.list)].rag_status
        /\ Len(run.all.list) = Len(SeriesOfResponse)
        /\ \A i \in 1..Len(run.all.list) :
              /\ run.all.list[i].time_period = SeriesOfResponse[i].date
              /\ run.all.list[i].value = NumV(SeriesOfResponse[i].value)

\* a text of two points was fetched in both modes: the historical list has
\* two records and the latest-only record is the second
C30_Witness ==
    /\ FetchedBothModes
    /\ run.metric_key = "cpi_inflation"
    /\ run.body = <<LineTitle, Line2024, Line2025>>
    /\ Len(run.all.list) = 2
    /\ run.latest.time_period = "2025"
    /\ run.all.list[1].time_period = "2024"

====
